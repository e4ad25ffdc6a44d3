----------------------------- MODULE MCAccounts -----------------------------
(***************************************************************************)
(* Accounts for TLC: one seeded employee and one to hire, whose number     *)
(* does not look like one and so can be chosen as a username before.       *)
(***************************************************************************)
EXTENDS Accounts

Styled == {"emp-1001"}
AllNumbers == Styled \cup {"hr7"}
Seed == [n \in Styled |-> "1001"]
Free == {<<"maria", 1>>, <<"hr7", 1>>, <<"emp-1001", 1>>}
Admin == {<<"admin", 1>>}
Submitted == {[no |-> "hr7", bio |-> "2001", active |-> TRUE],
              [no |-> "hr7", bio |-> "1001", active |-> FALSE]}
=============================================================================
