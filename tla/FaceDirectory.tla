--------------------------- MODULE FaceDirectory ----------------------------
(***************************************************************************)
(* What the enrolment of src/src/face_recognition.c promises: a directory  *)
(* of the faces that are known by name.  Enrolling gives a name to one     *)
(* face, in one step and whoever had it before, and touches no other name. *)
(* Only a fault costs anybody a name: an embedding that never reaches the  *)
(* flash, a failed read, a full flash, or a power cut, which may also      *)
(* bring back an earlier directory, since nothing is synchronised.  No     *)
(* fault gives a name to a face that did not have it.                      *)
(***************************************************************************)
EXTENDS Naturals

CONSTANTS People, Names

VARIABLES dir,     \* the faces each name stands for
          past,    \* the directories there have been since the power came on
          vain,    \* the face now being enrolled has not been stored
          faults   \* faults so far

dvars == <<dir, past, vain, faults>>

DInit == /\ dir = [n \in Names |-> {}]
         /\ past = {dir}
         /\ vain = FALSE /\ faults = 0

Enrol(n, p) == /\ ~vain
               /\ dir' = [dir EXCEPT ![n] = {p}]
               /\ past' = past \cup {dir'}
               /\ UNCHANGED <<vain, faults>>

\* The name is taken from its owner and given to a face that was not stored.
EnrolInVain(n) == /\ vain
                  /\ dir' = [dir EXCEPT ![n] = {}]
                  /\ past' = past \cup {dir'}
                  /\ vain' = FALSE
                  /\ UNCHANGED faults

GiveUp == vain' = FALSE /\ UNCHANGED <<dir, past, faults>>

Fault == faults' = faults + 1

\* The directory becomes d without some of its names.
Thins(d) ==
  \E kept \in SUBSET Names : dir' = [n \in Names |-> IF n \in kept THEN d[n] ELSE {}]

FaceIsLost == Fault /\ vain' = TRUE /\ UNCHANGED <<dir, past>>
ReadFails  == Fault /\ Thins(dir) /\ UNCHANGED <<past, vain>>
FlashIsFull == Fault /\ Thins(dir) /\ past' = past \cup {dir'} /\ vain' = FALSE
PowerIsCut == Fault /\ (\E d \in past : Thins(d)) /\ past' = {dir'} /\ vain' = FALSE

DNext == \/ \E n \in Names, p \in People : Enrol(n, p)
         \/ \E n \in Names : EnrolInVain(n)
         \/ GiveUp \/ FaceIsLost \/ ReadFails \/ FlashIsFull \/ PowerIsCut

DSpec == DInit /\ [][DNext]_dvars
=============================================================================
