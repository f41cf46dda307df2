------------------------------ MODULE MCReflect ------------------------------
(* Small instances of Reflect: the upstreams have the same or other things,  *)
(* or nothing, or fail, or answer in the wrong kind.                         *)
EXTENDS Reflect

A(kind, items) == [kind |-> kind, items |-> items]
NotFound == A("notfound", << >>)
Broken == A("error", << >>)
File == A("files", <<"x">>)
Files == A("files", <<"x", "y">>)

First == [files    |-> {File, Broken},
          services |-> {A("services", <<"x">>)},
          numbers  |-> {A("numbers", <<"x">>), NotFound},
          nothing  |-> {Broken},
          unreadable |-> {}]

Second == [files    |-> {Files, A("services", <<"y">>)},
           services |-> {A("services", <<"x", "y">>), NotFound},
           numbers  |-> {A("numbers", <<"y">>), NotFound, Broken},
           nothing  |-> {Broken},
           unreadable |-> {}]

MCMayAnswer == <<First, Second>>
MCAnswer == UNION { First[ask] \union Second[ask] : ask \in Ask }
=============================================================================
