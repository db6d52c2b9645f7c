---------------------------- MODULE MCInvoiceEmission ----------------------------
(* Instance for TLC: two payments of one company and one of another, so that a *)
(* rolled-back number can go to the same or to another object key; and amounts  *)
(* of every remainder the VAT arithmetic tells apart.                          *)
EXTENDS InvoiceEmission, TLC

CONSTANTS e1, e2, e3, c1, c2, w1, w2

MCCompanyOf == (e1 :> c1) @@ (e2 :> c1) @@ (e3 :> c2)

MCAmounts == 0..30

=================================================================================
