--------------------------- MODULE ControlRegister ---------------------------
(***************************************************************************)
(* What the control segment promises the dataplane: an atomic register.    *)
(* A publication takes effect in one step, a read returns the latest       *)
(* complete publication, and the pool the workers balance over is only     *)
(* ever replaced by what the last read returned.                           *)
(***************************************************************************)
EXTENDS Naturals, Sequences

CONSTANT Views   \* the values a publication can leave in the register

VARIABLES published, \* every value published so far, in order
          fetched,   \* the number of the publication the last read returned
          pool       \* the value the workers use

regVars == <<published, fetched, pool>>

Init == published = <<>> /\ fetched = 0 /\ pool = <<>>

Publish == \E v \in Views : /\ published' = Append(published, v)
                            /\ UNCHANGED <<fetched, pool>>

Read == /\ published # <<>>
        /\ fetched' = Len(published)
        /\ UNCHANGED <<published, pool>>

Apply == /\ fetched > 0
         /\ pool' = published[fetched]
         /\ UNCHANGED <<published, fetched>>

Next == Publish \/ Read \/ Apply

Spec == Init /\ [][Next]_regVars
=============================================================================
