----------------------------- MODULE ParamStore -----------------------------
(***************************************************************************)
(* What infoat24xx.c owes the program over a loss of power: each record    *)
(* has the value that a load would give now.  A save of one record leaves  *)
(* the others alone and, when it ends and the bus lost nothing, has taken  *)
(* effect.  Cut short or damaged, it leaves a value that the record had,   *)
(* or was to have, since it was last saved undamaged, or costs it its      *)
(* value, which is then the default one; a mixture never.                  *)
(***************************************************************************)
CONSTANTS
  Record,
  Values,    \* the values that each record is saved with
  Default    \* the value that each record is loaded with when there is no other

VARIABLES
  value,     \* of each record
  past,      \* what each record had or was to have since it was last saved undamaged
  saving,    \* the record being saved, with what, and <<>> when there is none
  lost       \* has the bus lost a part of what is being saved

store == <<value, past, saving, lost>>

Init ==
  /\ value = Default
  /\ past = [r \in Record |-> {Default[r]}]
  /\ saving = <<>> /\ lost = FALSE

Begin(r, v) ==
  /\ saving = <<>> /\ saving' = <<r, v>>
  /\ past' = [past EXCEPT ![r] = @ \union {v}]
  /\ lost' = FALSE
  /\ UNCHANGED value

\* A save of what the record has already.
Unneeded(r, v) ==
  /\ saving = <<>> /\ value[r] = v
  /\ past' = [past EXCEPT ![r] = {v}]
  /\ lost' = FALSE
  /\ UNCHANGED <<value, saving>>

\* What r may have turned into on the way.
Damaged(r) == \E w \in past[r] \union {Default[r]} : value' = [value EXCEPT ![r] = w]

Proceed(r, v) ==
  /\ saving = <<r, v>> /\ UNCHANGED <<saving, past>>
  /\ Damaged(r)
  /\ lost' \in {lost, TRUE}

End(r, v) ==
  /\ saving = <<r, v>> /\ saving' = <<>>
  /\ lost' \in {lost, TRUE}
  /\ IF lost'
     THEN Damaged(r) /\ UNCHANGED past
     ELSE value' = [value EXCEPT ![r] = v] /\ past' = [past EXCEPT ![r] = {v}]

\* What the bus did to an earlier save matters no longer.
Forget ==
  /\ saving = <<>> /\ lost' = FALSE
  /\ UNCHANGED <<value, past, saving>>

PowerFails(r, v) ==
  /\ saving = <<r, v>> /\ saving' = <<>>
  /\ Damaged(r) /\ UNCHANGED past
  /\ lost' = FALSE

Next ==
  \/ \E r \in Record : \E v \in Values[r] :
       Unneeded(r, v) \/ Begin(r, v) \/ Proceed(r, v) \/ End(r, v) \/ PowerFails(r, v)
  \/ Forget

Spec == Init /\ [][Next]_store
=============================================================================
