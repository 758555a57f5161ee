--------------------------- MODULE VideoSequence ---------------------------
(***************************************************************************)
(* What the encoder promises, without slices, macroblocks or buffers: the  *)
(* requested input pictures are coded one after the other, the first one   *)
(* on its own and each later one from those before it, and after each one  *)
(* the reconstruction file shows exactly the picture a receiver shows.     *)
(***************************************************************************)
EXTENDS Integers, Sequences

CONSTANTS
  Standard(_, _),     \* Standard(width, height): how a receiver filters a picture
  InputSamples(_, _)  \* InputSamples(size, k): what may be coded as picture k of the
                      \* input, nothing but that picture where it can be had

VARIABLES
  config,  \* the encoder configuration, fixed from the start
  coded,   \* the pictures in the bit stream: [input, order, lost, intra]
  shown    \* the pictures in the reconstruction file

vars == <<config, coded, shown>>

\* What may be coded as the n-th picture of the stream.
Inputs(n) == InputSamples(config.width_in_mb * config.height_in_mb, config.start_frame + (n - 1))

Requested == config.frames_to_encode

\* Display order is coding order, two counts to a picture.
Picture(n, input) ==
  [input |-> input,
   order |-> 2 * (n - 1),
   lost  |-> FALSE,
   intra |-> n = 1]

Shown(input) ==
  LET filtered == Standard(config.width_in_mb, config.height_in_mb)
  IN  [mb \in DOMAIN filtered |-> [input |-> input, filtered |-> filtered[mb]]]

Init == coded = <<>> /\ shown = <<>>

CodePicture ==
  /\ Len(coded) = Len(shown)
  /\ Requested = 0 \/ Len(coded) < Requested
  /\ \E input \in Inputs(Len(coded) + 1) :
       coded' = Append(coded, Picture(Len(coded) + 1, input))
  /\ UNCHANGED <<config, shown>>

\* The picture shown is the one that was coded last.
ShowPicture ==
  /\ Len(shown) < Len(coded)
  /\ shown' = Append(shown, Shown(coded[Len(coded)].input))
  /\ UNCHANGED <<config, coded>>

Next == CodePicture \/ ShowPicture

Spec == Init /\ [][Next]_vars
=============================================================================
