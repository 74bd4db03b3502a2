--------------------------- MODULE Preferences_proofs ---------------------------
(***************************************************************************)
(* What the player accepted comes back in every later session, unless the  *)
(* program removes the file itself or is killed while it writes it, but    *)
(* for the two preferences that are never read; and what plays is what was *)
(* accepted, a named substitute, or for those two the default.             *)
(***************************************************************************)
EXTENDS Preferences, TLAPS

Read == {"temperament", "lowpitch", "portmidi_input_device", DEVICE, FONT}

Same(p, q) == \A f \in Fields \cap Read : p[f] = q[f]

SameSound(p, q) ==
  \A f \in Fields \cap Read :
    \/ p[f] = q[f]
    \/ f = DEVICE /\ q[f] = "default" /\ p[f] = "first"
    \/ f = FONT /\ p[f] = "fallback"

(* What is written and not read is what was accepted in the session of the  *)
(* setup dialog, and the default in the others.                             *)
NotRead == {"dynamic_compression", "damping"}
SameOrLost(p, q) == \A f \in Fields \cap NotRead : p[f] = IF setup THEN q[f] ELSE "default"

(* The file, once it is written, holds what was accepted last.  The         *)
(* preferences follow it, and then depart from it only by the two           *)
(* substitutes; until the file has been looked at they are the defaults.    *)
IInv ==
  /\ TypeOK /\ WholeOrDefaults
  /\ pc \in {"starting", "writing"} => prefs = Defaults
  /\ pc = "writing" => accepted = Nothing
  /\ pc \in {"dialog", "saving"} => setup
  /\ accepted # Nothing /\ file # Torn =>
       /\ file = Whole(accepted)
       /\ pc = "loaded" => Same(prefs, accepted)
       /\ pc \in {"synth", "audio", "midi", "playing"} =>
            SameSound(prefs, accepted) /\ SameOrLost(prefs, accepted)

-------------------------------------------------------------------------------
(* The states of the file can be told apart, and what a whole file holds    *)
(* can be read from it.                                                     *)
LEMMA Files ==
  ASSUME NEW p, NEW q
  PROVE  /\ Whole(p) # Absent /\ Whole(p) # Torn
         /\ Whole(p) = Whole(q) => p = q
         /\ Whole(p).is = "whole" /\ Whole(p).holds = p
<1>1. Whole(p).is = "whole" /\ Absent.is = "absent" /\ Torn.is = "torn"
  BY DEF Whole, Absent, Torn
<1>2. Whole(p).holds = p /\ Whole(q).holds = q
  BY DEF Whole
<1> QED BY <1>1, <1>2

(* Whatever is read, chosen or substituted is again a set of preferences.   *)
LEMMA Records ==
  ASSUME NEW p \in Record, file \in {Absent, Torn} \cup { Whole(q) : q \in Record }
  PROVE  /\ Defaults \in Record
         /\ Reads(p) \in Record
         /\ Preferred(p) \in Record
         /\ Fallback(p) \in Record
<1>1. file.is = "whole" => file.holds \in Record
  <2>1. CASE file \in {Absent, Torn}
    BY <2>1 DEF Absent, Torn
  <2>2. CASE \E q \in Record : file = Whole(q)
    BY <2>2, Files
  <2> QED BY <2>1, <2>2
<1>2. Reads(p) \in Record
  BY <1>1 DEF Reads, Record
<1>3. Defaults \in Record /\ Preferred(p) \in Record /\ Fallback(p) \in Record
  BY DEF Defaults, Preferred, Fallback, Record, Values
<1> QED BY <1>2, <1>3

(* A whole file is read back field by field.                                *)
LEMMA ReadBack ==
  ASSUME NEW p \in Record, NEW q \in Record, file = Whole(q)
  PROVE  Same(Reads(p), q)
<1>1. file.is = "whole" /\ file.holds = q
  BY Files
<1>2. Reads(p) = [f \in Fields |-> IF f \in Parsed THEN q[f] ELSE p[f]]
  BY <1>1 DEF Reads
<1> QED BY <1>2 DEF Same, Read, Parsed

(* The two substitutes keep the sound the same in the sense of SameSound.   *)
LEMMA Substitutes ==
  ASSUME NEW p \in Record, NEW q \in Record
  PROVE  /\ Same(p, q) => SameSound(Preferred(p), q)
         /\ SameSound(p, q) => SameSound(Fallback(p), q)
         /\ SameSound(p, p)
  BY DEF Same, SameSound, Preferred, Fallback, Record, Values, Read, DEVICE, FONT

-------------------------------------------------------------------------------
LEMMA InitIInv == Init => IInv
<1> SUFFICES ASSUME Init PROVE IInv
  OBVIOUS
<1>1. Defaults \in Record
  BY DEF Defaults, Record, Values
<1> QED BY <1>1 DEF Init, IInv, TypeOK, WholeOrDefaults

LEMMA NextIInv == IInv /\ [Next]_vars => IInv'
<1> SUFFICES ASSUME IInv, [Next]_vars PROVE IInv'
  OBVIOUS
<1> USE DEF IInv
<1>t. TypeOK
  OBVIOUS
<1>f. file \in {Absent, Torn} \cup { Whole(q) : q \in Record } /\ prefs \in Record
  BY <1>t DEF TypeOK
<1>a. accepted \in Record \cup {Nothing}
  BY <1>t DEF TypeOK
<1>r. /\ Defaults \in Record /\ Reads(prefs) \in Record
      /\ Preferred(prefs) \in Record /\ Fallback(prefs) \in Record
  BY <1>f, Records
<1> USE DEF TypeOK, WholeOrDefaults
<1>1. CASE Start
  BY <1>1, <1>t, <1>r DEF Start
<1>2. CASE ReadPrefs
  <2>1. accepted # Nothing /\ file # Torn => Same(Reads(prefs), accepted)
    BY <1>2, <1>f, <1>a, ReadBack DEF ReadPrefs
  <2>2. WholeOrDefaults'
    BY <1>2, <1>r DEF ReadPrefs, Reads, Defaults, Record
  <2> QED BY <1>2, <2>1, <2>2, <1>t, <1>r DEF ReadPrefs
<1>3. CASE NoPrefs
  <2>1. accepted = Nothing
    BY <1>3, Files DEF NoPrefs, Absent, Torn
  <2> QED BY <1>3, <2>1, <1>t DEF NoPrefs, WriteBegins
<1>4. CASE Written
  BY <1>4, <1>t DEF Written, WriteEnds
<1>5. CASE OpenDialog
  <2>1. accepted # Nothing /\ file # Torn => SameSound(Preferred(prefs), accepted)
    BY <1>5, <1>f, <1>a, Substitutes DEF OpenDialog
  <2>2. ~setup => SameOrLost(Preferred(prefs), accepted)
    <3>1. \A f \in Fields \cap NotRead : prefs[f] = "default" /\ f # DEVICE
      BY <1>5 DEF OpenDialog, Defaults, NotRead, Parsed, DEVICE, FONT
    <3> QED BY <3>1 DEF SameOrLost, Preferred
  <2> QED BY <1>5, <2>1, <2>2, <1>t, <1>r DEF OpenDialog, SameOrLost
<1>6. CASE Accept
  BY <1>6, <1>t DEF Accept, WriteBegins
<1>7. CASE Saved
  <2>1. SameSound(prefs, prefs)
    BY <1>f, Substitutes
  <2>2. SameOrLost(prefs, prefs) /\ setup
    BY <1>7 DEF Saved, SameOrLost
  <2> QED BY <1>7, <2>1, <2>2, <1>t DEF Saved, WriteEnds, SameOrLost
<1>8. CASE Cancel
  BY <1>8, <1>t DEF Cancel
<1>9. CASE SynthStarts
  <2>1. accepted # Nothing /\ file # Torn => SameSound(Fallback(prefs), accepted)
    BY <1>9, <1>f, <1>a, Substitutes DEF SynthStarts
  <2>2. accepted # Nothing /\ file # Torn => SameOrLost(Fallback(prefs), accepted)
    BY <1>9 DEF SynthStarts, SameOrLost, Fallback, NotRead, FONT
  <2> QED BY <1>9, <2>1, <2>2, <1>t, <1>r DEF SynthStarts, FontLoads, SameOrLost
<1>10. CASE SynthFails
  BY <1>10, <1>t, <1>r DEF SynthFails, Unlink
<1>11. CASE AudioStarts
  BY <1>11, <1>t DEF AudioStarts, SameOrLost
<1>12. CASE MidiStarts
  BY <1>12, <1>t DEF MidiStarts, SameOrLost
<1>13. CASE MidiFails
  BY <1>13, <1>t DEF MidiFails, Unlink
<1>14. CASE Exit
  BY <1>14, <1>t DEF Exit
<1>15. CASE Crash
  BY <1>15, <1>t DEF Crash
<1>16. CASE UNCHANGED vars
  BY <1>16, <1>t DEF vars, Same, SameSound, SameOrLost
<1> QED BY <1>1, <1>2, <1>3, <1>4, <1>5, <1>6, <1>7, <1>8, <1>9, <1>10, <1>11,
           <1>12, <1>13, <1>14, <1>15, <1>16 DEF Next

(* The inductive invariant, through any number of sessions                  *)
(* (src/core/prefops.c, src/ui/prefdialog.c).                               *)
THEOREM Inductive == Spec => []IInv
  BY InitIInv, NextIInv, PTL DEF Spec

(* Type correctness, for every set of fields and every trouble.             *)
THEOREM TypeCorrect == Spec => []TypeOK
<1>1. IInv => TypeOK
  BY DEF IInv
<1> QED BY <1>1, Inductive, PTL

(* A session starts with what the player accepted last, for every field     *)
(* that parseConfig reads, through any number of sessions, whatever fails,  *)
(* unless the program removed the file or was killed while it wrote it.     *)
THEOREM AcceptedIsReloaded == Spec => []ParsedReloaded
<1>1. IInv => ParsedReloaded
  BY DEF IInv, ParsedReloaded, Reloaded, Same, Read
<1> QED BY <1>1, Inductive, PTL

(* What plays is what was accepted, but for PortAudio's first device and    *)
(* the soundfont tried last; of damping and dynamic_compression this holds  *)
(* in the session of the setup dialog, and without it they are the          *)
(* defaults.                                                                *)
THEOREM AcceptedPlays == Spec => []PlaysAccepted
<1>1. IInv => PlaysAccepted
  <2> SUFFICES ASSUME IInv, pc = "playing", accepted # Nothing, file # Torn, NEW f \in Fields
               PROVE  IF f \in NotRead THEN prefs[f] = IF setup THEN accepted[f] ELSE "default"
                      ELSE \/ prefs[f] = accepted[f]
                           \/ f = DEVICE /\ accepted[f] = "default" /\ prefs[f] = "first"
                           \/ f = FONT /\ prefs[f] = "fallback"
    BY DEF PlaysAccepted, NotRead
  <2>1. SameSound(prefs, accepted) /\ SameOrLost(prefs, accepted)
    BY DEF IInv
  <2>2. f \in Read \/ f \in NotRead
    BY PreferencesAssumption DEF Read, NotRead
  <2> QED
    BY <2>1, <2>2 DEF SameSound, SameOrLost
<1> QED BY <1>1, Inductive, PTL

(* Wherever the program is killed, the next session has preferences that    *)
(* were written as one, or the defaults.                                    *)
THEOREM AlwaysWholeOrDefaults == Spec => []WholeOrDefaults
<1>1. IInv => WholeOrDefaults
  BY DEF IInv
<1> QED BY <1>1, Inductive, PTL
===============================================================================
