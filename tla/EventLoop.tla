----------------------------- MODULE EventLoop -----------------------------
(***************************************************************************)
(* EventLoop::wait_next_event (src/util/eventloop.cc) for rules about file *)
(* descriptors, as operators over the state st of whoever owns the rules:  *)
(* the module that instantiates this one says what their callbacks do.     *)
(*                                                                         *)
(* A call has two halves around poll().  Prepares says which rules are     *)
(* left and which of them poll is asked about; Serves what is done with    *)
(* poll's answer, rev[r] being the revents of rule r's descriptor, among   *)
(* "IN", "OUT", "HUP" and "ERR".                                           *)
(***************************************************************************)
LOCAL INSTANCE Integers
LOCAL INSTANCE Sequences

CONSTANTS
    Order,           \* the rules, in the order they were added
    Reads(_),        \* whether a rule's direction is Direction::In
    AtEof(_, _),     \* fd.eof() of rule r in state st
    IsClosed(_, _),  \* fd.closed()
    Interest(_, _),  \* interest()
    Callback(_, _),  \* the state after callback()
    Touches(_, _),   \* whether callback() reads or writes the descriptor
    Cancel(_, _),    \* the state after cancel()
    Fail(_, _)       \* the state after error()

\* Lines 122-153: a rule at its end is cancelled and erased, the others are
\* polled, those without interest for errors only.
LooksAt(acc, r) ==
    IF r \notin acc.rules THEN acc
    ELSE IF (Reads(r) /\ AtEof(acc.st, r)) \/ IsClosed(acc.st, r)
      THEN [acc EXCEPT !.st = Cancel(acc.st, r), !.rules = @ \ {r}]
    ELSE IF Interest(acc.st, r)
      THEN [acc EXCEPT !.asked = @ \cup {r}]
    ELSE acc

Prepares(st, rules) ==
    LET upTo[i \in 0 .. Len(Order)] ==
            IF i = 0 THEN [st |-> st, rules |-> rules, asked |-> {}]
            ELSE LooksAt(upTo[i - 1], Order[i])
    IN  upTo[Len(Order)]

Ready(asked, rev, r) ==
    r \in asked /\ (IF Reads(r) THEN "IN" ELSE "OUT") \in rev[r]

\* poll() returns.
PollReturns(rules, asked, rev) ==
    \E r \in rules : Ready(asked, rev, r) \/ rev[r] \cap {"HUP", "ERR"} # {}

\* Line 196: a hangup and nothing else, or on a rule that writes.
Defunct(asked, rev, r) ==
    /\ "HUP" \in rev[r]
    /\ ~Reads(r) \/ (r \in asked /\ ~Ready(asked, rev, r))

\* Lines 166-221: only the first ready rule is served.  again: it is open and
\* interested afterwards; busy: and has left its descriptor as it was, so that
\* an exception ends the loop.
Answers(acc, r, asked, rev) ==
    IF acc.served # << >> \/ r \notin acc.rules THEN acc
    ELSE IF "ERR" \in rev[r]
      THEN [acc EXCEPT !.st = Cancel(Fail(acc.st, r), r), !.rules = @ \ {r}]
    ELSE IF Defunct(asked, rev, r)
      THEN [acc EXCEPT !.st = Cancel(acc.st, r), !.rules = @ \ {r}]
    ELSE IF Ready(asked, rev, r)
      THEN LET after == Callback(acc.st, r)
               again == ~IsClosed(after, r) /\ Interest(after, r)
           IN  [acc EXCEPT !.st = after, !.served = << r >>,
                   !.again = again, !.busy = again /\ ~Touches(acc.st, r)]
    ELSE acc

Serves(st, rules, asked, rev) ==
    LET upTo[i \in 0 .. Len(Order)] ==
            IF i = 0 THEN [st |-> st, rules |-> rules, served |-> << >>,
                           again |-> FALSE, busy |-> FALSE]
            ELSE Answers(upTo[i - 1], Order[i], asked, rev)
    IN  upTo[Len(Order)]
=============================================================================
