---------------------------- MODULE MCCallbackId ----------------------------
(* Instances of CallbackId: ids of three byte values, every short text over *)
(* a few characters, and the texts about the longest that decode accepts.   *)
EXTENDS CallbackId

MCSampleTexts ==
    UNION {[1..n -> {0, 1, 16, 32, 63, Other}] : n \in 0..4}
        \cup UNION {[1..n -> {0, 60}] : n \in 10..12}
=============================================================================
