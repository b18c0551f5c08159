------------------------------- MODULE Console -------------------------------
(***************************************************************************)
(* Console input: the 16550, PL011 and PS/2 receive paths, the bounded     *)
(* queue of keyboard.rs and the line editor of shell_task.  Bytes are      *)
(* classes: "a" and "A" printable, "L" and "T" the two bytes of one UTF-8  *)
(* character, "bs" backspace, "cc" Ctrl-C or Ctrl-U, "cr" and "lf".  Every *)
(* byte carries its place `n` in what was typed and whether it starts a    *)
(* line; the code never looks at these two.  "bad" is a byte damaged on    *)
(* the wire: what it reads as does not matter, it must not be used.        *)
(***************************************************************************)
EXTENDS Integers, Sequences, SequencesExt

CONSTANTS
    QUEUE_SIZE,
    MAX_LINE,
    FIFO_SIZE,      \* the UART's receive FIFO
    Keys,           \* what can be typed on the serial terminal
    MaxTyped,       \* bound: bytes typed
    SMP             \* the 16550's interrupt may come to a CPU other than the one that writes

VARIABLES
    source,     \* "16550", "pl011" or "ps2"
    typist,     \* bytes typed, whether the next one starts a line, the shift keys
    uart,       \* FIFO, the error bits of LSR, where the receive handler is (`rx`), and whether
                \* a writer has read error bits that it has yet to store (`tx`)
    RX_ERROR,
    INPUT,      \* the queue
    shell       \* locals of shell_task, the bytes consumed since the last line end (`taken`),
                \* and the last command executed (`ran`)

vars == <<source, typist, uart, RX_ERROR, INPUT, shell>>

Ends == {"cr", "lf"}
Byte(c) == [c |-> c, n |-> typist.n + 1, first |-> typist.first]
Nothing == [line |-> <<>>, taken |-> <<>>]
Editor == [line |-> <<>>, overflow |-> FALSE, was_cr |-> FALSE, pending |-> 0, invalid |-> FALSE,
           taken |-> <<>>, ran |-> Nothing]

Init ==
    /\ source \in {"16550", "pl011", "ps2"}
    /\ typist = [n |-> 0, first |-> TRUE, shift |-> FALSE]
    /\ uart = [fifo |-> <<>>, error |-> FALSE, rx |-> "idle", tx |-> FALSE]
    /\ RX_ERROR = FALSE
    /\ INPUT = [bytes |-> <<>>, lost |-> FALSE, discarding |-> FALSE]
    /\ shell = Editor

-----------------------------------------------------------------------------
(* keyboard.rs: the queue *)

\* Mutant: the queue is emptied but the rest of the damaged line is accepted.
invalidate_queued(q) == [q EXCEPT !.bytes = <<>>, !.lost = TRUE]
invalidate(q) == [bytes |-> <<>>, lost |-> TRUE, discarding |-> TRUE]

push(q, byte) ==
    IF q.discarding THEN [q EXCEPT !.discarding = byte.c \notin Ends]
    ELSE IF Len(q.bytes) = QUEUE_SIZE
    THEN [invalidate(q) EXCEPT !.discarding = @ /\ byte.c \notin Ends]
    ELSE [q EXCEPT !.bytes = Append(@, byte)]

Typed(c) == typist' = [typist EXCEPT !.n = @ + 1, !.first = c \in Ends]

\* handle_scancode: E0 prefixes, releases and unmapped keys are ignored.
MAP_LOWER == [code \in {"a", "enter", "bksp", "caps"} |->
    CASE code = "a" -> "a" [] code = "enter" -> "lf" [] code = "bksp" -> "bs" [] OTHER -> ""]
MAP_UPPER == [MAP_LOWER EXCEPT !["a"] = "A"]

handle_scancode(code, released) ==
    /\ source = "ps2" /\ typist.n < MaxTyped
    /\ \/ /\ code = "shift"
          /\ typist' = [typist EXCEPT !.shift = ~released]
          /\ UNCHANGED INPUT
       \/ /\ code # "shift"
          /\ LET c == IF released \/ code = "E0" THEN ""
                      ELSE IF typist.shift THEN MAP_UPPER[code] ELSE MAP_LOWER[code]
             IN IF c = "" THEN UNCHANGED <<typist, INPUT>>
                ELSE Typed(c) /\ INPUT' = push(INPUT, Byte(c))
    /\ UNCHANGED <<source, uart, RX_ERROR, shell>>

-----------------------------------------------------------------------------
(* The UARTs *)

\* The wire: a byte that finds the FIFO full is lost.  The error bits come up at once for
\* that, and when a damaged byte gets to the head of the FIFO.
AtHead(fifo) == fifo # <<>> /\ Head(fifo).c = "bad"
Arrive(c, received) ==
    /\ source # "ps2" /\ typist.n < MaxTyped
    /\ Typed(c)
    /\ LET full == Len(uart.fifo) = FIFO_SIZE
           fifo == IF full THEN uart.fifo ELSE Append(uart.fifo, Byte(received))
       IN uart' = [uart EXCEPT !.fifo = fifo,
                               !.error = @ \/ full \/ (source = "16550" /\ uart.fifo = <<>> /\ AtHead(fifo))]
    /\ UNCHANGED <<source, RX_ERROR, INPUT, shell>>

\* status in putc: reading LSR clears the error bits; they are stored in RX_ERROR after.
\* write_str has interrupts off on its own CPU.
putc_status ==
    /\ source = "16550" /\ uart.error /\ ~uart.tx
    /\ SMP \/ uart.rx = "idle"
    /\ uart' = [uart EXCEPT !.error = FALSE, !.tx = TRUE]
    /\ UNCHANGED <<source, typist, RX_ERROR, INPUT, shell>>

putc_store ==
    /\ uart.tx
    /\ uart' = [uart EXCEPT !.tx = FALSE]
    /\ RX_ERROR' = TRUE
    /\ UNCHANGED <<source, typist, INPUT, shell>>

\* amd64 handle_rx_irq, one turn of its loop in two steps: the LSR read, then the swap of
\* RX_ERROR with what follows from it.  A turn that finds neither byte nor error ends the
\* loop and changes nothing.  RX_LOCK keeps a second CPU out.
handle_rx_status ==
    /\ source = "16550" /\ uart.rx = "idle" /\ (uart.fifo # <<>> \/ uart.error \/ RX_ERROR)
    /\ SMP \/ ~uart.tx
    /\ uart' = [uart EXCEPT !.error = FALSE,
                            !.rx = IF uart.error THEN "error" ELSE "data"]
    /\ UNCHANGED <<source, typist, RX_ERROR, INPUT, shell>>

handle_rx_irq ==
    /\ uart.rx # "idle"
    /\ LET error == RX_ERROR \/ uart.rx = "error"
       IN \/ /\ error
             /\ uart' = [uart EXCEPT !.fifo = <<>>, !.rx = "idle"]
             /\ INPUT' = invalidate(INPUT)
          \/ /\ ~error
             /\ uart' = [uart EXCEPT !.fifo = Tail(@), !.error = @ \/ AtHead(Tail(uart.fifo)), !.rx = "idle"]
             /\ INPUT' = push(INPUT, Head(uart.fifo))
    /\ RX_ERROR' = FALSE
    /\ UNCHANGED <<source, typist, shell>>

\* arm64 handle_rx_irq: the data register with the error bits of its byte, then the error
\* register, which shows an overrun.  The FIFO cannot fill up again before that is cleared.
arm64_handle_rx_irq ==
    /\ source = "pl011" /\ uart.fifo # <<>>
    /\ \/ /\ uart.error \/ AtHead(uart.fifo)
          /\ uart' = [uart EXCEPT !.fifo = <<>>, !.error = FALSE]
          /\ INPUT' = invalidate(INPUT)
       \/ /\ ~uart.error /\ ~AtHead(uart.fifo)
          /\ uart' = [uart EXCEPT !.fifo = Tail(@)]
          /\ INPUT' = push(INPUT, Head(uart.fifo))
    /\ UNCHANGED <<source, typist, RX_ERROR, shell>>

-----------------------------------------------------------------------------
(* shell_task: one turn of its loop *)

Width(line) == Len(line) + Len(SelectSeq(line, LAMBDA ch : ch = "LT"))
Pushed(s, ch) ==
    IF Width(Append(s.line, ch)) > MAX_LINE THEN [s EXCEPT !.overflow = TRUE]
    ELSE [s EXCEPT !.line = Append(@, ch)]

\* A byte above 0x7f: the second completes the character, or shows it is none.
Utf8(s, c) ==
    LET t == [s EXCEPT !.was_cr = FALSE, !.pending = 0]
    IN IF s.pending = 0 /\ c = "L" THEN [t EXCEPT !.pending = 1]
       ELSE IF s.pending = 1 /\ c = "T" THEN Pushed(t, "LT")
       ELSE [t EXCEPT !.invalid = TRUE]

Cleared(s) == [s EXCEPT !.line = <<>>, !.overflow = FALSE, !.invalid = FALSE]

Edit(s0, c) ==
    LET s == [s0 EXCEPT !.invalid = @ \/ s0.pending # 0, !.pending = 0, !.was_cr = c = "cr"]
    IN IF c = "lf" /\ s0.was_cr THEN [s EXCEPT !.was_cr = FALSE]
       ELSE IF c \in Ends
       THEN [Cleared(s) EXCEPT !.ran = IF s.invalid \/ s.overflow THEN @ ELSE [line |-> s.line, taken |-> s.taken]]
       ELSE IF c = "cc" THEN Cleared(s)
       ELSE IF c = "bs" /\ ~s.overflow THEN [s EXCEPT !.line = IF @ = <<>> THEN @ ELSE Front(@)]
       ELSE IF c \in {"a", "A"} /\ ~s.overflow THEN Pushed(s, c)
       ELSE s

pop_lost ==
    /\ INPUT.lost
    /\ INPUT' = [INPUT EXCEPT !.lost = FALSE]
    /\ shell' = [Editor EXCEPT !.ran = shell.ran]
    /\ UNCHANGED <<source, typist, uart, RX_ERROR>>

pop_byte ==
    /\ ~INPUT.lost /\ INPUT.bytes # <<>>
    /\ LET byte == Head(INPUT.bytes)
           s == [shell EXCEPT !.taken = Append(@, byte)]
           edited == IF byte.c \in {"L", "T"} /\ ~s.overflow THEN Utf8(s, byte.c) ELSE Edit(s, byte.c)
       IN shell' = IF byte.c \in Ends THEN [edited EXCEPT !.taken = <<>>] ELSE edited
    /\ INPUT' = [INPUT EXCEPT !.bytes = Tail(@)]
    /\ UNCHANGED <<source, typist, uart, RX_ERROR>>

Next ==
    \/ \E code \in DOMAIN MAP_LOWER \cup {"E0", "shift"}, released \in BOOLEAN : handle_scancode(code, released)
    \/ \E c \in Keys : Arrive(c, c)
    \/ \E c \in {"a", "cr"} : Arrive(c, "bad")
    \/ putc_status \/ putc_store \/ handle_rx_status \/ handle_rx_irq \/ arm64_handle_rx_irq
    \/ pop_lost \/ pop_byte

Spec == Init /\ [][Next]_vars

-----------------------------------------------------------------------------
\* What a line says once typed: Ctrl-C starts it over, a backspace takes a character back.
RECURSIVE Said(_)
Said(bytes) ==
    IF bytes = <<>> THEN <<>>
    ELSE LET c == Last(bytes).c
             before == Said(Front(bytes))
         IN CASE c = "cc" -> <<>>
              [] c = "bs" -> IF before = <<>> THEN <<>> ELSE Front(before)
              [] c \in {"a", "A"} -> Append(before, c)
              [] c = "T" /\ Len(bytes) > 1 -> Append(Said(Front(Front(bytes))), "LT")
              [] OTHER -> before

\* A command the shell executes is one whole line as it was typed, whatever was lost or
\* damaged at the UART or lost in the full queue and whenever the shell woke up: no byte
\* of it is missing or damaged, none belongs to another line, and the edits are those of
\* the typist (status, handle_rx_irq, keyboard.rs invalidate and push, shell_task).
CommandsWhole ==
    LET bytes == shell.ran.taken
    IN bytes # <<>> =>
          /\ Head(bytes).first
          /\ \A i \in DOMAIN bytes : bytes[i].c # "bad"
          /\ \A i \in 2..Len(bytes) : bytes[i].n = bytes[i - 1].n + 1
          /\ shell.ran.line = Said(Front(bytes))
=============================================================================
