------------------------------ MODULE MCDriver ------------------------------
(* Small devices for module Driver: what their capability lists are.       *)
EXTENDS Driver

Header(id, next) == [id |-> id, next |-> next]

\* At 0 is GCAP, which is no capability and happens to name place 1.
List(start, at1, at2) ==
  [llch |-> start, mem |-> 0 :> Header("other", 1) @@ 1 :> at1 @@ 2 :> at2]

MCLists ==
  {List(0, Header("other", 0), Header("other", 0)),  \* no list
   List(1, Header("PP", 0), Header("other", 0)),     \* PP only
   List(1, Header("SPIB", 0), Header("PP", 0)),      \* SPIB only
   List(1, Header("PP", 2), Header("SPIB", 0)),      \* both
   List(2, Header("PP", 2), Header("SPIB", 1))}      \* a cycle

MCSdSts == <<"SD0_STS", "SD1_STS">>
=============================================================================
