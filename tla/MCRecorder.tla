----------------------------- MODULE MCRecorder -----------------------------
(***************************************************************************)
(* Small instances of the recorder: one uncompressed and one compressed    *)
(* channel, segments that hold one or two data records, chunks of two      *)
(* messages, and a file that grows every 192 or 256 bytes.                 *)
(***************************************************************************)
EXTENDS RecorderProperties

ThreeConfigs == {[name |-> "a", comp |-> FALSE], [name |-> "b", comp |-> TRUE],
                 [name |-> "c", comp |-> TRUE]}
MCConfigs == {[name |-> "a", comp |-> FALSE], [name |-> "b", comp |-> TRUE]}
BothModes == BOOLEAN
==============================================================================
