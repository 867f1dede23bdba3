----------------------------- MODULE MCUartLink -----------------------------
EXTENDS UartLink

(* A frame of n equal bytes. *)
Run(n, byte) == [i \in 1..n |-> byte]

(* No byte of these frames, and no length byte, is 0x5A.  They hold the    *)
(* two other special bytes, their escaped forms, and the two frame lengths *)
(* whose low byte must itself be escaped (85 and 170).                     *)
PlainFrames ==
  {<<1>>, <<170>>, <<85, 138>>, <<117, 170>>, <<122, 0, 85>>,
   Run(85, 7), Run(170, 85)}

(* Frames for a line with faults: one holds a length, one what looks like  *)
(* the start of a frame.                                                   *)
MixedFrames == {<<1>>, <<7, 2>>, <<170, 0, 1, 5>>}

(* A frame with a data byte equal to the escape character. *)
EscapeFrames == {<<90, 65>>}
=============================================================================
