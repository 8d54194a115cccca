---------------------------- MODULE DurableSave ----------------------------
(***************************************************************************)
(* What an EEPROM save promises, without files, locks or buffers.          *)
(*                                                                         *)
(* `mirror` is what the game reads and writes, `saved` what the next boot  *)
(* would load, `shot` the image a commit in progress is going to store.    *)
(* A commit stores exactly one image that the mirror held at one instant;  *)
(* it replaces the old save in one step or not at all; `clean` means that  *)
(* nothing would be lost if the power failed now.                          *)
(***************************************************************************)
CONSTANTS Image,    \* contents of the mirror
          Blank,    \* the erased mirror
          None,     \* no save exists
          Junk      \* a save that the current program cannot interpret

VARIABLES mirror, saved, shot, clean

absvars == <<mirror, saved, shot, clean>>

Loadable == IF saved = None THEN Blank ELSE saved

Init == /\ mirror = Blank
        /\ saved \in Image \cup {None, Junk}
        /\ shot = None
        /\ clean = FALSE

\* The game changes the mirror: the save is behind from now on.
Edit == /\ mirror' \in Image
        /\ clean' = FALSE
        /\ UNCHANGED <<saved, shot>>

\* A commit fixes what it is going to store: the mirror as it is now.
Capture == /\ shot' = mirror
           /\ UNCHANGED <<mirror, saved, clean>>

\* The save becomes the captured image, at once.
Commit == /\ shot \in Image
          /\ ~clean
          /\ saved' = shot
          /\ UNCHANGED <<mirror, shot, clean>>

\* A commit ends; it may vouch for the mirror only if the save equals it.
Settle == /\ shot' = None
          /\ clean' \in {clean, mirror = Loadable}
          /\ UNCHANGED <<mirror, saved>>

\* The mirror is given up (a load begins, or the power fails).
Discard == /\ mirror' = Blank
           /\ shot' = None
           /\ clean' = FALSE
           /\ UNCHANGED saved

\* The mirror becomes the save.
Load == /\ saved # Junk
        /\ mirror' = Loadable
        /\ clean' = TRUE
        /\ UNCHANGED <<saved, shot>>

\* A migration fills the mirror and commits that very image.
Migrate == /\ mirror' \in Image
           /\ shot' = mirror'
           /\ clean' = FALSE
           /\ UNCHANGED saved

Next == Edit \/ Capture \/ Commit \/ Settle \/ Discard \/ Load \/ Migrate

Spec == Init /\ [][Next]_absvars
=============================================================================
