--------------------------- MODULE MCFlowControl ---------------------------
(* Small instances of FlowControl.  The streams of Narrow have a window    *)
(* that their data exceeds and are ended in every way; the others have     *)
(* room for all their data and compete only for the connection's window.   *)
EXTENDS FlowControl

CONSTANTS Narrow, InitStream, InitConn, MaxStream, MaxConn

Wide == 8 * Limit

MCInitWindow ==
    [k \in Targets |-> IF k = Conn THEN InitConn
                       ELSE IF k \in Narrow THEN InitStream ELSE Wide]
MCMaxWindow ==
    [k \in Targets |-> IF k = Conn THEN MaxConn
                       ELSE IF k \in Narrow THEN MaxStream ELSE Wide]
MCClosings ==
    [s \in Streams |-> IF s \in Narrow THEN {"fin", "reset", "stop"} ELSE {}]
=============================================================================
