------------------------------ MODULE Terminal ------------------------------
(***************************************************************************)
(* What Console::print_string, print_uint64 and get_string (console.cpp)   *)
(* do with the lock held, down to the indices of the ring buffer that      *)
(* carries their characters (queue.hpp), and the message of a kernel panic *)
(* that goes through the same buffer (k_trap_handlers.cpp).                *)
(* A getc or putc is a trap and one step; a putc that finds the buffer     *)
(* full waits until there is room, which is what NoOutputDropped of Kernel *)
(* shows of putc_sem.  Console::putc and Console::getc can be called       *)
(* without the lock; the keys such a getc takes are not among those that   *)
(* get_string reads.                                                       *)
(* The definitions called faulty are no part of the specification.         *)
(***************************************************************************)
EXTENDS ConsoleLock, SequencesExt

CONSTANTS
  Messages,         (* the strings print_string is given                   *)
  Numbers,          (* given to print_uint64, and addresses of a panic     *)
  NUMBER_MOD,       (* one more than the greatest uint64                   *)
  Letters,          (* the keys of characters                              *)
  Singles,          (* the characters Console::putc is given               *)
  MaxLength,        (* the max_length get_string is given                  *)
  MaxKeys,          (* bound: keys typed in a call before enter            *)
  IO_BUFFER_SIZE

ASSUME TerminalAssumption ==
  /\ IO_BUFFER_SIZE \in Nat \ {0} /\ NUMBER_MOD \in Nat \ {0, 1}
  /\ Numbers \subseteq 0..NUMBER_MOD - 1
  /\ \A m \in Messages : m \in Seq(Range(m))
  /\ MaxLength \in Nat /\ MaxKeys \in Nat

DELETE == "delete"
ENTER  == "enter"
NUL    == "nul"
Panic  == <<"P">>      \* the message before the address

VARIABLES
  call,       \* the last call of each thread, with its argument
  out,        \* what its next putc's put
  line,       \* str, i and whether the loop of get_string is left
  putc_buffer,
  panicked,
  said,       \* put in the buffer by its holder since the lock was granted
  typed,      \* the keys each get_string has read
  inflight,   \* what went into the buffer and has not come out, in order
  shown       \* what the console took, from a panic on

text == <<call, out, line, said, typed>>
all  == <<vars, text, putc_buffer, panicked, inflight, shown>>

-----------------------------------------------------------------------------
(* Queue<char, IO_BUFFER_SIZE> of queue.hpp.                               *)

EmptyRing ==
  [head |-> 0, tail |-> 0, count |-> 0,
   buffer |-> [i \in 0..IO_BUFFER_SIZE - 1 |-> NUL]]

(* Faulty: the oldest character is overwritten.                            *)
PutUnguarded(q, c) ==
  [q EXCEPT !.buffer[q.tail] = c, !.tail = (@ + 1) % IO_BUFFER_SIZE,
            !.count = IF @ < IO_BUFFER_SIZE THEN @ + 1 ELSE @]

PutChar(q, c) ==
  IF q.count < IO_BUFFER_SIZE
    THEN [q EXCEPT !.buffer[q.tail] = c, !.tail = (@ + 1) % IO_BUFFER_SIZE,
                   !.count = @ + 1]
    ELSE q

(* Faulty: the index runs on to the end of the memory of the queue.        *)
GetUnwrapped(q) ==
  [q EXCEPT !.buffer[q.head] = NUL,
            !.head = IF @ < IO_BUFFER_SIZE - 1 THEN @ + 1 ELSE @,
            !.count = @ - 1]

(* What is left in the cell is never read, and NUL here.                   *)
GetChar(q) ==
  [q EXCEPT !.buffer[q.head] = NUL, !.head = (@ + 1) % IO_BUFFER_SIZE, !.count = @ - 1]

Contents(q) ==
  [i \in 1..q.count |-> q.buffer[(q.head + i - 1) % IO_BUFFER_SIZE]]

(* flush_putc_buffer when the console takes n characters.                  *)
Flushed(q, n) ==
  LET left[i \in 0..n] == IF i = 0 THEN q ELSE GetChar(left[i - 1]) IN left[n]

(* Several put's with nothing taken in between.                            *)
PutAll(q, s) ==
  LET after[i \in 0..Len(s)] == IF i = 0 THEN q ELSE PutChar(after[i - 1], s[i])
  IN after[Len(s)]

-----------------------------------------------------------------------------
(* Numbers as characters.                                                  *)

Digit(d) == <<"0", "1", "2", "3", "4", "5", "6", "7", "8", "9">>[d + 1]

(* Faulty: a weight that equals the number is not reached.                 *)
GetDecimalWeightBelow(number) ==
  LET grow[w \in 1..NUMBER_MOD - 1] ==
        LET more == (w * 10) % NUMBER_MOD
        IN IF more < number /\ more > w THEN grow[more] ELSE w
  IN grow[1]

GetDecimalWeight(number) ==
  LET grow[w \in 1..NUMBER_MOD - 1] ==
        LET more == (w * 10) % NUMBER_MOD
        IN IF more <= number /\ more > w THEN grow[more] ELSE w
  IN grow[1]

(* The loop of print_uint64 and of the panic.                              *)
DigitsOf(number) ==
  LET from[weight \in 0..NUMBER_MOD - 1] ==
        IF weight = 0 THEN <<>>
        ELSE <<Digit((number \div weight) % 10)>> \o from[weight \div 10]
  IN from[GetDecimalWeight(number)]

(* What the digits are to be.                                              *)
Decimal(number) ==
  LET of[n \in 0..number] ==
        IF n < 10 THEN <<Digit(n)>> ELSE Append(of[n \div 10], Digit(n % 10))
  IN of[number]

-----------------------------------------------------------------------------
NoLine == [str |-> [i \in 0..MaxLength |-> NUL], i |-> 0, left |-> TRUE]

NoCalls == [t \in Thread |-> <<"none">>]
Nothing == [t \in Thread |-> <<>>]
NoLines == [t \in Thread |-> NoLine]

Begins ==
  /\ Init
  /\ call = NoCalls /\ out = Nothing /\ line = NoLines
  /\ said = <<>> /\ typed = Nothing
  /\ putc_buffer = EmptyRing
  /\ panicked = FALSE
  /\ inflight = <<>>
  /\ shown = <<>>

(* The calls, with the character that ends the output of the first two.    *)
Calls ==
  {<<"string", m>> : m \in Messages} \cup {<<"number", n>> : n \in Numbers}
    \cup {<<"line", MaxLength>>}

(* A thread calls one of the three and tests initialized.  get_string has  *)
(* its buffer from the heap by then, whose last character it clears.       *)
Call(t, c) ==
  /\ Test(t)
  /\ call' = [call EXCEPT ![t] = c]
  /\ out' = [out EXCEPT ![t] = CASE c[1] = "string" -> Append(c[2], "end")
                                 [] c[1] = "number" -> Append(DigitsOf(c[2]), "end")
                                 [] c[1] = "line"   -> <<>>]
  /\ line' = [line EXCEPT ![t] =
       [NoLine EXCEPT !.left = c[1] # "line" \/ MaxLength = 0]]
  /\ typed' = [typed EXCEPT ![t] = <<>>]
  /\ UNCHANGED <<said, putc_buffer, panicked, inflight, shown>>

Locking(t) ==
  /\ Lock(t)
  /\ said' = IF pc'[t] = "console" THEN <<>> ELSE said
  /\ UNCHANGED <<call, out, line, typed, putc_buffer, panicked, inflight, shown>>

(* A putc of the thread at the console.                                    *)
Putc(t) ==
  /\ pc[t] = "console"
  /\ out[t] # <<>>
  /\ putc_buffer.count < IO_BUFFER_SIZE
  /\ putc_buffer' = PutChar(putc_buffer, Head(out[t]))
  /\ inflight' = Append(inflight, Head(out[t]))
  /\ said' = Append(said, Head(out[t]))
  /\ out' = [out EXCEPT ![t] = Tail(@)]
  /\ UNCHANGED <<vars, call, line, typed, panicked, shown>>

(* Console::putc, which takes no lock: whoever is at the console, the      *)
(* character comes between two of its own.                                 *)
PutcUnlocked(t, c) ==
  /\ pc[t] = "enter"
  /\ putc_buffer.count < IO_BUFFER_SIZE
  /\ putc_buffer' = PutChar(putc_buffer, c)
  /\ inflight' = Append(inflight, c)
  /\ UNCHANGED <<vars, text, panicked, shown>>

(* Faulty: the index is only put back over the character deleted.          *)
NextIndexAfterDeleteOnce(i) == IF i >= 1 THEN i ELSE 0

(* i is set two back, or to -1, and the loop then adds one.                *)
NextIndexAfterDelete(i) == (IF i >= 2 THEN i - 2 ELSE -1) + 1

(* Faulty: backspaces are sent with nothing to delete.                     *)
EchoAlways(i, key) ==
  CASE key = DELETE -> <<"back", "blank", "back">>
    [] key = ENTER  -> <<"newline">>
    [] OTHER        -> <<key>>

Echo(i, key) ==
  CASE key = DELETE -> IF i > 0 THEN <<"back", "blank", "back">> ELSE <<>>
    [] key = ENTER  -> <<"newline">>
    [] OTHER        -> <<key>>

(* A turn of the loop of get_string: getc returns a key.                   *)
Type(t, key) ==
  LET i    == line[t].i
      next == IF key = DELETE THEN NextIndexAfterDelete(i) ELSE i + 1
  IN /\ pc[t] = "console"
     /\ ~line[t].left
     /\ out[t] = <<>>
     /\ line' = [line EXCEPT ![t] =
          [str  |-> [@.str EXCEPT ![i] = IF key = ENTER THEN NUL ELSE key],
           i    |-> IF key = ENTER THEN i ELSE next,
           left |-> key = ENTER \/ next >= MaxLength]]
     /\ out' = [out EXCEPT ![t] = Echo(i, key)]
     /\ typed' = [typed EXCEPT ![t] = Append(@, key)]
     /\ UNCHANGED <<vars, call, said, putc_buffer, panicked, inflight, shown>>

Keys(t) == IF Len(typed[t]) < MaxKeys THEN Letters \cup {DELETE, ENTER} ELSE {ENTER}

(* The call is over; its locals are forgotten.                             *)
Unlocking(t) ==
  /\ out[t] = <<>>
  /\ line[t].left
  /\ Unlock(t)
  /\ said' = <<>>
  /\ call' = [call EXCEPT ![t] = <<"none">>]
  /\ line' = [line EXCEPT ![t] = NoLine]
  /\ typed' = [typed EXCEPT ![t] = <<>>]
  /\ UNCHANGED <<out, putc_buffer, panicked, inflight, shown>>

(* The flush thread, n characters.                                         *)
Flush(n) ==
  /\ n <= putc_buffer.count
  /\ putc_buffer' = Flushed(putc_buffer, n)
  /\ inflight' = SubSeq(inflight, n + 1, Len(inflight))
  /\ UNCHANGED <<vars, text, panicked, shown>>

(* An illegal instruction or access at address sepc: what the buffer holds *)
(* is flushed while the console is ready, for n characters, the message is *)
(* put in the buffer, as far as it fits, and m characters are flushed.     *)
(* The machine then stays in while (true); what the threads were at is     *)
(* gone.                                                                   *)
KernelPanic(sepc, n, m) ==
  LET full == PutAll(Flushed(putc_buffer, n), Panic \o DigitsOf(sepc) \o <<"newline">>)
  IN /\ n <= putc_buffer.count
     /\ m <= full.count
     /\ panicked' = TRUE
     /\ putc_buffer' = Flushed(full, m)
     /\ shown' = SubSeq(Contents(putc_buffer), 1, n) \o SubSeq(Contents(full), 1, m)
     /\ inflight' = inflight \o Panic \o Decimal(sepc) \o <<"newline">>
     /\ pc' = [t \in Thread |-> "halted"]
     /\ call' = NoCalls /\ out' = Nothing /\ line' = NoLines
     /\ said' = <<>> /\ typed' = Nothing
     /\ UNCHANGED <<initialized, value, waiting>>

Working(t) ==
  \/ Initialize(t) /\ UNCHANGED <<text, putc_buffer, panicked, inflight, shown>>
  \/ Mark(t) /\ UNCHANGED <<text, putc_buffer, panicked, inflight, shown>>
  \/ Locking(t)
  \/ Putc(t)
  \/ \E key \in Keys(t) : Type(t, key)
  \/ Unlocking(t)

Moves ==
  \/ \E t \in Thread :
       \/ Begin(t) /\ UNCHANGED <<text, putc_buffer, panicked, inflight, shown>>
       \/ \E c \in Calls : Call(t, c)
       \/ \E c \in Singles : PutcUnlocked(t, c)
       \/ Working(t)
  \/ \E n \in 1..IO_BUFFER_SIZE : Flush(n)
  \/ \E sepc \in Numbers, n, m \in 0..IO_BUFFER_SIZE : KernelPanic(sepc, n, m)

TerminalSpec == Begins /\ [][~panicked /\ Moves]_all

(* Round robin runs every thread that is not blocked, the flush thread     *)
(* flushes, the console takes characters, and who is asked for a line      *)
(* types it; nobody has to call again.  A thread that waits for room in    *)
(* the buffer gets a place in its turn (putc_sem is first come, first      *)
(* served, and PutcReturns of Kernel holds), though others fill the buffer *)
(* again and again: strong fairness of its putc.                           *)
FairSpec ==
  /\ TerminalSpec
  /\ \A t \in Thread : WF_all(~panicked /\ Working(t)) /\ SF_all(~panicked /\ Putc(t))
  /\ WF_all(~panicked /\ \E n \in 1..IO_BUFFER_SIZE : Flush(n))

-----------------------------------------------------------------------------
(* The ring of cells is a queue: whatever wraps around, what comes out is  *)
(* what went in and in that order.                                         *)
RingIsQueue == ~panicked => Contents(putc_buffer) = inflight

(* What is put on the console with the lock held, between a lock and its   *)
(* unlock, is what one thread prints, from the start and with nothing of   *)
(* another message or line between (console.cpp:41): a message, or all the *)
(* digits of a number.  A Console::putc takes no lock and may come between *)
(* any two characters.                                                     *)
LinesWhole ==
  \A t \in Thread : pc[t] = "console" /\ call[t][1] # "line" =>
    said \o out[t] = Append(IF call[t][1] = "string" THEN call[t][2]
                            ELSE Decimal(call[t][2]), "end")

(* What get_string holds, up to its index or its first NUL, is what was    *)
(* typed, with each delete taking back the character before it.            *)
After(held, key) ==
  CASE key = DELETE -> IF held = <<>> THEN held ELSE Front(held)
    [] key = ENTER  -> held
    [] OTHER        -> Append(held, key)

Edited(keys) ==
  LET held[n \in 0..Len(keys)] ==
        IF n = 0 THEN <<>> ELSE After(held[n - 1], keys[n])
  IN held[Len(keys)]

LineEdited ==
  \A t \in Thread : pc[t] = "console" /\ call[t][1] = "line" =>
    /\ Edited(typed[t]) = [j \in 1..line[t].i |-> line[t].str[j - 1]]
    /\ line[t].left => line[t].str[line[t].i] = NUL

(* The line the user sees is the line get_string holds: the characters     *)
(* said, shown with a cursor, leave it before the cursor and blanks after, *)
(* as long as nobody uses Console::putc meanwhile.                         *)
NoCells == [at |-> 0, cells |-> [j \in -MaxKeys..MaxKeys + 1 |-> "blank"]]

With(s, c) ==
  CASE c = "back"    -> [s EXCEPT !.at = @ - 1]
    [] c = "newline" -> s
    [] OTHER -> [at    |-> s.at + 1,
                 cells |-> [j \in DOMAIN s.cells |->
                              IF j = s.at + 1 THEN c ELSE s.cells[j]]]

Shown(chars) ==
  LET shows[n \in 0..Len(chars)] ==
        IF n = 0 THEN NoCells ELSE With(shows[n - 1], chars[n])
  IN shows[Len(chars)]

LineShown ==
  \A t \in Thread : pc[t] = "console" /\ call[t][1] = "line" /\ out[t] = <<>> =>
    LET s    == Shown(said)
        held == Edited(typed[t])
    IN /\ s.at = Len(held)
       /\ \A j \in DOMAIN s.cells :
            s.cells[j] = IF j \in DOMAIN held THEN held[j] ELSE "blank"

(* After a panic the console has shown what was to be printed before it    *)
(* and then the message with the address, in this order and without gaps;  *)
(* a character is lost only when the buffer has been full.                 *)
PanicInOrder ==
  panicked =>
    LET output == shown \o Contents(putc_buffer)
    IN /\ IsPrefix(output, inflight)
       /\ output = inflight \/ Len(output) >= IO_BUFFER_SIZE

(* Whoever calls print_string, print_uint64 or get_string gets the console *)
(* in the end, unless the kernel panics: though others come back for it    *)
(* again and again and wait as well, and whatever is put without the lock. *)
ConsoleIsGranted == \A t \in Thread : pc[t] = "wait" ~> pc[t] = "console" \/ panicked
=============================================================================
