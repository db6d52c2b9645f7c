----------------------------- MODULE SavedSearchAlerts -----------------------------
(***************************************************************************)
(* A recruiter's saved search and the sweeps that tell him of candidates   *)
(* who have come to match it since he was last told.                       *)
(*                                                                         *)
(* A sweep reads the search, takes the time, counts the profiles updated   *)
(* since the search's watermark, claims the watermark by a conditional     *)
(* update, and notifies.  Sweeps overlap (a repeated job, a second         *)
(* worker), owners edit the search meanwhile, and a profile's update is    *)
(* stamped when its transaction starts and seen when it commits.           *)
(*                                                                         *)
(* The specification's usual names carry the prefix Alert here, so that a  *)
(* module can extend this one beside another component's.                  *)
(***************************************************************************)
EXTENDS Naturals, FiniteSets

CONSTANTS
    Sweeps,    \* sweeps in flight at once
    Owners,    \* requests of the owner in flight at once
    Profiles,  \* profiles that match the criteria when they are updated
    MaxTime    \* bound: instants

ASSUME AlertAssumption == MaxTime \in Nat \ {0}

VARIABLES
    now,       \* the clock
    search,    \* the row of saved_searches
    updating,  \* updating[m]: the stamp of profile m's uncommitted update, or 0
    updated,   \* updated[m]: updated_at of profile m, or 0 when it has never matched
    sweep,     \* sweep[s]: where sweep s stands and what it has read
    edit,      \* edit[o]: the row that request o is about to save
    optIn,     \* history: when the watermark was last anchored by the owner
    rewound,   \* history: an owner's save has put an older watermark back; the three
               \* histories below stop there
    claims,    \* history: claims[t]: sweeps that have claimed the watermark t
    told,      \* history: told[m][t]: alerts that counted the update of m stamped t
    missed     \* history: updates that committed after they were counted, or whose alert failed

historyVars == <<optIn, rewound, claims, told, missed>>
profileVars == <<updating, updated>>
alertVars == <<now, search, profileVars, sweep, edit, historyVars>>

Instants == 1..MaxTime

NoSearch == [saved |-> FALSE, alert |-> FALSE, last |-> 0]

Asleep   == [pc |-> "idle", since |-> 0, start |-> 0, matches |-> {}]
NoEdit   == [pc |-> "idle", row |-> NoSearch]

NoClaims    == [t \in 0..MaxTime |-> 0]
NothingTold == [m \in Profiles |-> [t \in Instants |-> 0]]

AlertInit ==
    /\ now = 1
    /\ search = NoSearch
    /\ updating = [m \in Profiles |-> 0] /\ updated = [m \in Profiles |-> 0]
    /\ sweep = [s \in Sweeps |-> Asleep]
    /\ edit = [o \in Owners |-> NoEdit]
    /\ optIn = 0
    /\ rewound = FALSE
    /\ claims = NoClaims /\ told = NothingTold /\ missed = {}

Tick ==
    /\ now < MaxTime /\ now' = now + 1
    /\ UNCHANGED <<search, profileVars, sweep, edit, historyVars>>

---------------------------------------------------------------------------------
(* A profile's update: stamped with the start of its transaction.                  *)

update(m) ==
    /\ updating[m] = 0 /\ updated[m] < now
    /\ updating' = [updating EXCEPT ![m] = now]
    /\ UNCHANGED <<now, search, updated, sweep, edit, historyVars>>

\* A sweep that has counted takes a watermark past the stamp, or one has taken it.
TooLate(t) == search.last >= t \/ \E s \in Sweeps : sweep[s].pc = "claim" /\ sweep[s].start >= t

commit(m) ==
    /\ updating[m] # 0
    /\ updated' = [updated EXCEPT ![m] = updating[m]]
    /\ updating' = [updating EXCEPT ![m] = 0]
    /\ missed' = IF ~ rewound /\ TooLate(updating[m]) THEN missed \cup {<<m, updating[m]>>} ELSE missed
    /\ UNCHANGED <<now, search, sweep, edit, optIn, claims, told, rewound>>

---------------------------------------------------------------------------------
(* The owner.                                                                      *)

\* Mutant: a search saved with alerts has no watermark yet.
createUnanchored ==
    /\ ~ search.saved /\ search.last = 0
    /\ \E alert \in BOOLEAN : search' = [saved |-> TRUE, alert |-> alert, last |-> 0]
    /\ optIn' = now
    /\ UNCHANGED <<now, profileVars, sweep, edit, claims, told, missed, rewound>>

create ==
    /\ ~ search.saved /\ search.last = 0
    /\ \E alert \in BOOLEAN : search' = [saved |-> TRUE, alert |-> alert, last |-> IF alert THEN now ELSE 0]
    /\ optIn' = now
    /\ UNCHANGED <<now, profileVars, sweep, edit, claims, told, missed, rewound>>

\* Turning alerts on anchors the watermark; a change of name or criteria changes nothing
\* that is seen here.
Edited(row, alert) ==
    [row EXCEPT !.alert = alert, !.last = IF alert /\ ~ row.alert THEN now ELSE row.last]

findOwned(o) ==
    /\ edit[o].pc = "idle" /\ search.saved
    /\ \E alert \in BOOLEAN :
         edit' = [edit EXCEPT ![o] = [pc |-> "save", row |-> Edited(search, alert)]]
    /\ UNCHANGED <<now, search, profileVars, sweep, historyVars>>

\* It writes every column back as it was read, and inserts a removed row again.
saveEdit(o) ==
    LET row == edit[o].row
    IN  /\ edit[o].pc = "save"
        /\ search' = row
        /\ edit' = [edit EXCEPT ![o] = NoEdit]
        /\ optIn' = IF row.last > search.last THEN row.last ELSE optIn
        /\ IF row.last < search.last
             THEN rewound' = TRUE /\ claims' = NoClaims /\ told' = NothingTold /\ missed' = {}
             ELSE UNCHANGED <<rewound, claims, told, missed>>
        /\ UNCHANGED <<now, profileVars, sweep>>

\* The removed row's watermark is kept for a save that brings it back.
remove ==
    /\ search.saved
    /\ search' = [search EXCEPT !.saved = FALSE, !.alert = FALSE]
    /\ UNCHANGED <<now, profileVars, sweep, edit, historyVars>>

---------------------------------------------------------------------------------
(* runAlertSweep, for this search.                                                 *)

find(s) ==
    /\ sweep[s].pc = "idle" /\ search.alert
    /\ sweep' = [sweep EXCEPT ![s] = [Asleep EXCEPT !.pc = "start", !.since = search.last]]
    /\ UNCHANGED <<now, search, profileVars, edit, historyVars>>

\* A sweep that starts in the very millisecond of the watermark has nothing to count.
takeStart(s) ==
    /\ sweep[s].pc = "start"
    /\ sweep' = [sweep EXCEPT ![s] =
         IF now > sweep[s].since THEN [@ EXCEPT !.pc = "count", !.start = now] ELSE Asleep]
    /\ UNCHANGED <<now, search, profileVars, edit, historyVars>>

countNewMatches(s) ==
    LET matches == {<<m, updated[m]>> : m \in {n \in Profiles : updated[n] > sweep[s].since}}
    IN  /\ sweep[s].pc = "count"
        /\ sweep' = [sweep EXCEPT ![s] =
             IF matches = {} THEN Asleep ELSE [@ EXCEPT !.pc = "claim", !.matches = matches]]
        /\ UNCHANGED <<now, search, profileVars, edit, historyVars>>

\* Mutant: an unconditional update.
Anyway(s) == search.saved

\* Mutant: the guard compares with the new watermark.
Swapped(s) == search.saved /\ search.last = sweep[s].start

\* The conditional update's guard.
Unmoved(s) == search.saved /\ search.last = sweep[s].since

\* Mutant: the watermark is the time of the claim.
claimNow(s) ==
    /\ sweep[s].pc = "claim"
    /\ IF Unmoved(s)
         THEN /\ search' = [search EXCEPT !.last = now]
              /\ claims' = IF rewound THEN claims ELSE [claims EXCEPT ![sweep[s].since] = @ + 1]
              /\ sweep' = [sweep EXCEPT ![s] = [Asleep EXCEPT !.pc = "notify", !.matches = sweep[s].matches]]
         ELSE /\ sweep' = [sweep EXCEPT ![s] = Asleep]
              /\ UNCHANGED <<search, claims>>
    /\ UNCHANGED <<now, profileVars, edit, optIn, told, missed, rewound>>

claimAdvance(s) ==
    /\ sweep[s].pc = "claim"
    /\ IF Unmoved(s)
         THEN /\ search' = [search EXCEPT !.last = sweep[s].start]
              /\ claims' = IF rewound THEN claims ELSE [claims EXCEPT ![sweep[s].since] = @ + 1]
              /\ sweep' = [sweep EXCEPT ![s] = [Asleep EXCEPT !.pc = "notify", !.matches = sweep[s].matches]]
         ELSE /\ sweep' = [sweep EXCEPT ![s] = Asleep]
              /\ UNCHANGED <<search, claims>>
    /\ UNCHANGED <<now, profileVars, edit, optIn, told, missed, rewound>>

notify(s) ==
    /\ sweep[s].pc = "notify"
    /\ told' = [m \in Profiles |-> [t \in Instants |->
                  told[m][t] + (IF <<m, t>> \in sweep[s].matches /\ ~ rewound THEN 1 ELSE 0)]]
    /\ sweep' = [sweep EXCEPT ![s] = Asleep]
    /\ UNCHANGED <<now, search, profileVars, edit, optIn, claims, missed, rewound>>

\* The sweep dies, or its notification fails: it is logged and the next sweep goes on from
\* the claimed watermark.
fail(s) ==
    /\ sweep[s].pc # "idle"
    /\ missed' = IF sweep[s].pc = "notify" /\ ~ rewound THEN missed \cup sweep[s].matches ELSE missed
    /\ sweep' = [sweep EXCEPT ![s] = Asleep]
    /\ UNCHANGED <<now, search, profileVars, edit, optIn, claims, told, rewound>>

AlertNext ==
    \/ Tick \/ create \/ remove
    \/ \E m \in Profiles : update(m) \/ commit(m)
    \/ \E o \in Owners : findOwned(o) \/ saveEdit(o)
    \/ \E s \in Sweeps : find(s) \/ takeStart(s) \/ countNewMatches(s) \/ claimAdvance(s) \/ notify(s) \/ fail(s)

AlertSpec == AlertInit /\ [][AlertNext]_alertVars

(***************************************************************************)
(* Fairness: the job is repeated by its schedule and one worker goes on    *)
(* with a sweep it has begun; the others may stop anywhere.  Its sweep may *)
(* fail at any step, but not every one of them at the same step: hence     *)
(* strong fairness.                                                        *)
(***************************************************************************)
AlertFairSpec ==
    /\ AlertSpec
    /\ LET s == CHOOSE worker \in Sweeps : TRUE
       IN  /\ WF_alertVars(find(s)) /\ WF_alertVars(notify(s) \/ fail(s))
           /\ SF_alertVars(takeStart(s)) /\ SF_alertVars(countNewMatches(s)) /\ SF_alertVars(claimAdvance(s))

---------------------------------------------------------------------------------
\* Every variable keeps its type.
AlertTypeOK ==
    /\ now \in Instants
    /\ search \in [saved : BOOLEAN, alert : BOOLEAN, last : 0..MaxTime]
    /\ updating \in [Profiles -> 0..MaxTime] /\ updated \in [Profiles -> 0..MaxTime]
    /\ sweep \in [Sweeps -> [pc : {"idle", "start", "count", "claim", "notify"}, since : 0..MaxTime,
                             start : 0..MaxTime, matches : SUBSET (Profiles \X Instants)]]
    /\ edit \in [Owners -> [pc : {"idle", "save"}, row : [saved : BOOLEAN, alert : BOOLEAN, last : 0..MaxTime]]]
    /\ optIn \in 0..MaxTime /\ rewound \in BOOLEAN
    /\ claims \in [0..MaxTime -> Nat]
    /\ told \in [Profiles -> [Instants -> Nat]]
    /\ missed \subseteq Profiles \X Instants

\* Alerts are never on without a watermark, whatever edits overlap: the first sweep would
\* count the whole back-catalogue.
Anchored == search.alert => search.last > 0

\* Of racing sweeps that have read one watermark, one notifies, unless an edit has put an
\* older watermark back.
ClaimedOnce == \A t \in 0..MaxTime : claims[t] <= 1

\* An update is counted "at worst twice": by the sweep during which it happened and by the
\* next.
CountedTwiceAtWorst == \A m \in Profiles, t \in Instants : told[m][t] <= 2

\* A match that no sweep will count any more has been told, or is about to be; it is
\* dropped only if it committed after the count, or its alert failed after the claim, or it
\* is older than the owner's wish to be told.
DroppedOnlyIfLate ==
    search.alert /\ ~ rewound =>
        \A m \in Profiles :
            LET t == updated[m]
            IN  \/ t = 0 \/ t > search.last \/ t <= optIn \/ told[m][t] > 0 \/ <<m, t>> \in missed
                \/ \E s \in Sweeps : sweep[s].pc = "notify" /\ <<m, t>> \in sweep[s].matches

\* A match is counted in the end, or alerts are switched off.
EventuallyClaimed ==
    \A m \in Profiles :
        (search.alert /\ updated[m] > search.last) ~> (~ search.alert \/ updated[m] <= search.last)

---------------------------------------------------------------------------------
(* What comments in the code say and the code does not do (see README).            *)

\* saved-search-alert.service.ts: a profile indexed during the sweep is "never silently
\* dropped".
NeverDropped ==
    search.alert /\ ~ rewound =>
        \A m \in Profiles :
            LET t == updated[m]
            IN  \/ t = 0 \/ t > search.last \/ t <= optIn \/ told[m][t] > 0
                \/ \E s \in Sweeps : sweep[s].pc = "notify"
=================================================================================
