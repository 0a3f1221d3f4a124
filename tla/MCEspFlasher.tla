---------------------------- MODULE MCEspFlasher ----------------------------
(* The two halves of esp-flasher: what flash_file picks from an image, and how
   flash_mem brings it to the device.  They share no state, so that each is
   explored with the other at rest. *)
EXTENDS IncrementalFlash, SerialFlash

\* The second image ends where the first begins.
MCCalls == <<[at |-> 2, sectors |-> <<"a", "b">>], [at |-> 1, sectors |-> <<"c">>]>>

AtRest == size = 1 /\ pc = "dry" /\ base = 0 /\ offset = 0
SerialAtRest == host = "force" /\ rounds = Rounds

allVars == <<vars, serialVars>>
FileStep    == Next /\ SerialAtRest /\ UNCHANGED serialVars
LineStep(A) == A /\ AtRest /\ UNCHANGED vars

EspNext == FileStep \/ LineStep(SerialNext)

EspInit == Init /\ SerialInit

EspSpec ==
  /\ EspInit /\ [][EspNext]_allVars
  /\ WF_allVars(FileStep)
  /\ WF_allVars(LineStep(HostNext)) /\ WF_allVars(LineStep(ReaderNext))
  /\ WF_allVars(LineStep(DeviceNext))

(* esp-flasher ends, with everything sent or with a failure, whatever pieces an *)
(* image has and whatever the device answers or does not answer.                *)
FlasherEnds == <>(pc \in {"done", "failed"} \/ host \in {"done", "failed"})
=============================================================================
