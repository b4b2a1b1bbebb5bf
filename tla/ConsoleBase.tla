----------------------------- MODULE ConsoleBase -----------------------------
(***************************************************************************)
(* What the pages of the console have in common: how a behaviour of a page *)
(* goes.  Users do not wait for answers in the mode "hasty", answers are   *)
(* lost in "lossy", others change what the page shows in "shared"; nothing *)
(* of this happens in "patient".                                           *)
(***************************************************************************)

CONSTANTS
    PageModes,
    Nil         \* no value

PageModesKnown == PageModes \subseteq {"patient", "hasty", "lossy", "shared"}

=============================================================================
