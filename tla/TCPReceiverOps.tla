--------------------------- MODULE TCPReceiverOps ---------------------------
(***************************************************************************)
(* src/src/tcp_receiver.cc as operators over one record                    *)
(*                                                                         *)
(*   reasm   reassembler_ (ReassemblerOps.tla)     isn   isn_              *)
(*   maxAbs  max_abs_seqno    init  is_init_    fin  has_fin_              *)
(*   rst     has_rst_                                                      *)
(***************************************************************************)
EXTENDS ReassemblerOps, Wrap32

CONSTANT MaxWindow      \* the largest window_size: UINT16_MAX

ASSUME WindowAssumption == MaxWindow \in Nat

NewReceiver(capacity) ==
    [reasm |-> NewReassembler(capacity), isn |-> 0, maxAbs |-> 0,
     init |-> FALSE, fin |-> FALSE, rst |-> FALSE]

\* The index of the first byte of a segment, in 64 bits: sequence number 0 is
\* the SYN, so a segment that claims it without a SYN lies beyond everything.
IndexBehind(abs) == (abs - 2) % (Modulus * Modulus)
                                 \* mutant: off by one
StreamIndex(abs) == (abs - 1) % (Modulus * Modulus)

ReceiveSYN(r, msg) ==
    [r EXCEPT !.init = TRUE, !.fin = msg.FIN, !.rst = FALSE,
              !.isn = msg.seqno, !.maxAbs = 0,
              !.reasm = Insert(r.reasm, 0, msg.payload, msg.FIN)]

ReceiveRest(r, msg) ==
    LET abs == Unwrap(msg.seqno, r.isn, r.maxAbs) IN
    [r EXCEPT !.fin = r.fin \/ msg.FIN, !.maxAbs = abs,
              !.reasm = Insert(r.reasm, StreamIndex(abs), msg.payload, msg.FIN)]

ReceiverReceive(r, msg) ==
    IF msg.RST
      THEN [r EXCEPT !.rst = TRUE, !.reasm.output = SetError(r.reasm.output)]
      ELSE IF msg.SYN THEN ReceiveSYN(r, msg) ELSE ReceiveRest(r, msg)

\* send().  The FIN counts as received once no byte is pending.
AckFIN(r) == r.fin /\ BytesPending(r.reasm) = 0

WindowInclusive(r) == Least(Available(r.reasm.output) + 1, MaxWindow)
                                 \* mutant: one too many
FreeWindow(r) == Least(Available(r.reasm.output), MaxWindow)

AckEverything(r) ==              \* mutant: acknowledges pending bytes too
    [hasAck |-> r.init,
     ackno  |-> IF r.init
                  THEN Wrap(r.reasm.next + 1 + Flag(AckFIN(r))
                              + BytesPending(r.reasm), r.isn)
                  ELSE 0,
     window |-> FreeWindow(r),
     RST    |-> r.rst \/ r.reasm.output.error]
ReceiverSend(r) ==
    [hasAck |-> r.init,
     ackno  |-> IF r.init
                  THEN Wrap(r.reasm.next + 1 + Flag(AckFIN(r)), r.isn)
                  ELSE 0,
     window |-> FreeWindow(r),
     RST    |-> r.rst \/ r.reasm.output.error]
=============================================================================
