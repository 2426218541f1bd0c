------------------------- MODULE HandleOutputProofs -------------------------
(***************************************************************************)
(* Safety of HandleOutput for every number of bytes.  As for input, the    *)
(* inductive invariant ties the place of the subthread to the flags and    *)
(* the two events; besides, it follows the bytes from the queue through    *)
(* the block in flight to what has been written.                           *)
(*                                                                         *)
(* The functions of the main thread call each other and the client on a    *)
(* structure that is half updated, so the parts of the invariant speak of  *)
(* any structure x, with the subthread at p and the bytes w written.       *)
(***************************************************************************)
EXTENDS HandleOutput, SequenceTheorems, TLAPS

(* The subthread works: both events are clear, and the main thread waits.  *)
Working(x, p) ==
    /\ p \in {"write", "signal", "fail"} =>
         x.busy /\ ~x.evToMain /\ ~x.evFromMain /\ ~x.done
    /\ p = "signal" => ~x.writeerr
    /\ p = "fail" => x.writeerr

(* The subthread waits: for work, for the main thread to take its result,  *)
(* or with work on its way.                                                *)
Waiting(x, p) ==
    p = "wait" =>
        \/ ~x.busy /\ ~x.evToMain /\ ~x.evFromMain /\ ~x.moribund
        \/ x.busy /\ x.evToMain /\ ~x.evFromMain /\ ~x.done /\ ~x.writeerr
        \/ x.busy /\ ~x.evToMain /\ x.evFromMain

Woken(x, p) ==
    /\ p \in {"check", "die"} => x.busy /\ ~x.evToMain /\ ~x.evFromMain
    /\ p = "die" => x.done

(* The life of a handle.  A thread that has gone said so once, having been *)
(* asked to or after an error.                                             *)
Life(x, p) ==
    /\ p # "exited" => x.alloc
    /\ x.done => x.moribund
    /\ x.defunct => p = "exited" /\ ~x.evToMain
    /\ p = "exited" /\ x.evToMain => x.done \/ x.writeerr

(* A block has been handed to the subthread and not been written yet.      *)
InFlight(x, p) ==
    \/ p = "write"
    \/ p = "check" /\ ~x.done
    \/ p = "wait" /\ x.evFromMain /\ ~x.done

(* A write has ended and the main thread has not heard of it.              *)
Unheard(x, p) == p = "signal" \/ (p = "wait" /\ x.evToMain)

(* The block in flight is the head of the queue and the next to write.     *)
Block(x, p, w) ==
    /\ InFlight(x, p) =>
         /\ Len(x.buffer) \in 1..Len(x.queued_data)
         /\ \A i \in 1..Len(x.buffer) : x.buffer[i] = x.queued_data[i]
         /\ \A i \in 1..Len(x.buffer) : x.buffer[i] = Len(w) + i
    /\ Unheard(x, p) => x.lenwritten \in 1..Len(x.queued_data)
    /\ p = "fail" => Len(x.queued_data) > 0

(* The bytes not yet written are those at the end of what the client gave. *)
Queue(x, p, w) ==
    x.alloc /\ ~x.moribund =>
        /\ Len(w) + Len(x.queued_data)
             = x.given + (IF Unheard(x, p) THEN x.lenwritten ELSE 0)
        /\ \A i \in 1..Len(x.queued_data) :
               x.queued_data[i] = i + x.given - Len(x.queued_data)

(* After EOF there is nothing left to write.                               *)
AfterEof(x, w) ==
    x.outgoingeof = "EOF_SENT" => Len(w) = x.given /\ Len(x.queued_data) = 0

Flags(x, p) == Working(x, p) /\ Waiting(x, p) /\ Woken(x, p) /\ Life(x, p)

Sound(x, p, w) ==
    /\ x \in OutputHandle
    /\ Flags(x, p) /\ Block(x, p, w) /\ Queue(x, p, w) /\ AfterEof(x, w)

Inv ==
    /\ TypeOK
    /\ \A i \in 1..Len(written) : written[i] = i
    /\ Sound(o, pc, written)
-----------------------------------------------------------------------------
(* The first n elements of a sequence, and the rest of it.                 *)
LEMMA Prefix ==
    ASSUME NEW S, NEW q \in Seq(S), NEW n \in 0..Len(q)
    PROVE  /\ SubSeq(q, 1, n) \in Seq(S)
           /\ Len(SubSeq(q, 1, n)) = n
           /\ \A i \in 1..n : SubSeq(q, 1, n)[i] = q[i]
  BY SubSeqProperties

LEMMA Suffix ==
    ASSUME NEW S, NEW q \in Seq(S), NEW n \in 0..Len(q)
    PROVE  /\ SubSeq(q, n + 1, Len(q)) \in Seq(S)
           /\ Len(SubSeq(q, n + 1, Len(q))) = Len(q) - n
           /\ \A i \in 1..(Len(q) - n) :
                  SubSeq(q, n + 1, Len(q))[i] = q[n + i]
  BY SubSeqProperties

(* The queue q that holds the last bytes of the first g, with n more.      *)
LEMMA Appended ==
    ASSUME NEW q \in Seq(Nat), NEW g \in Nat, NEW n \in Nat,
           \A i \in 1..Len(q) : q[i] = i + g - Len(q)
    PROVE  LET r == q \o [i \in 1..n |-> g + i]
           IN  /\ r \in Seq(Nat) /\ Len(r) = Len(q) + n
               /\ \A i \in 1..Len(q) : r[i] = q[i]
               /\ \A i \in 1..Len(r) : r[i] = i + (g + n) - Len(r)
  <1>1. PICK new : new = [i \in 1..n |-> g + i]
    OBVIOUS
  <1>2. new \in Seq(Nat) /\ Len(new) = n /\ \A i \in 1..n : new[i] = g + i
    BY <1>1
  <1>3. PICK r : r = q \o new
    OBVIOUS
  <1>4. /\ r \in Seq(Nat) /\ Len(r) = Len(q) + Len(new)
        /\ \A i \in 1..Len(r) :
               r[i] = IF i <= Len(q) THEN q[i] ELSE new[i - Len(q)]
    <2>1. /\ q \o new \in Seq(Nat) /\ Len(q \o new) = Len(q) + Len(new)
          /\ \A i \in 1..(Len(q) + Len(new)) :
                 (q \o new)[i] = IF i <= Len(q) THEN q[i] ELSE new[i - Len(q)]
      BY <1>2, ConcatProperties, Zenon
    <2> QED
      BY <1>3, <2>1, Zenon
  <1>5. Len(q) \in Nat
    OBVIOUS
  <1>6. \A i \in 1..Len(r) : r[i] = i + (g + n) - Len(r)
    <2> TAKE i \in 1..Len(r)
    <2>1. CASE i <= Len(q)
      <3>1. i \in 1..Len(q) /\ r[i] = q[i]
        BY <1>2, <1>4, <1>5, <2>1
      <3>2. q[i] = i + g - Len(q)
        BY <3>1
      <3> QED
        BY <1>2, <1>4, <1>5, <3>1, <3>2
    <2>2. CASE ~(i <= Len(q))
      <3>1. i - Len(q) \in 1..n
        BY <1>2, <1>4, <1>5, <2>2
      <3>2. r[i] = g + (i - Len(q))
        BY <1>2, <1>4, <2>2, <3>1
      <3> QED
        BY <1>2, <1>4, <1>5, <3>2
    <2> QED
      BY <2>1, <2>2
  <1> QED
    BY <1>1, <1>2, <1>3, <1>4, <1>5, <1>6

(* A new handle satisfies the invariant, with a subthread or without.      *)
LEMMA InitInv == Init => Inv
  <1> SUFFICES ASSUME Init PROVE Inv
    OBVIOUS
  <1>1. << >> \in Seq(Nat) /\ Len(<< >>) = 0
    OBVIOUS
  <1>2. o \in OutputHandle
    BY <1>1 DEF Init, handle_output_new, OutputHandle
  <1>3. /\ o.alloc /\ ~o.busy /\ ~o.moribund /\ ~o.done /\ ~o.defunct
        /\ ~o.evToMain /\ ~o.evFromMain /\ ~o.writeerr
        /\ o.queued_data = << >> /\ o.given = 0 /\ o.outgoingeof = "EOF_NO"
        /\ pc \in {"wait", "exited"} /\ written = << >>
    BY DEF Init, handle_output_new
  <1>4. Flags(o, pc)
    BY <1>3 DEF Flags, Working, Waiting, Woken, Life
  <1>5. Block(o, pc, written) /\ AfterEof(o, written)
    BY <1>3 DEF Block, InFlight, Unheard, AfterEof
  <1>6. Queue(o, pc, written)
    BY <1>1, <1>3 DEF Queue, Unheard
  <1> QED
    BY <1>1, <1>2, <1>3, <1>4, <1>5, <1>6 DEF Inv, TypeOK, Sound, PCs

(* A step of the subthread preserves the invariant.                        *)
LEMMA SubthreadInv == Inv /\ Subthread => Inv'
  <1> SUFFICES ASSUME Inv, Subthread PROVE Inv'
    OBVIOUS
  <1>0. /\ o \in OutputHandle /\ Flags(o, pc) /\ Block(o, pc, written)
        /\ Queue(o, pc, written) /\ AfterEof(o, written)
        /\ written \in Seq(Nat) /\ Len(written) \in Nat
        /\ o.buffer \in Seq(Nat) /\ o.queued_data \in Seq(Nat)
        /\ Len(o.buffer) \in Nat /\ Len(o.queued_data) \in Nat
    BY DEF Inv, TypeOK, Sound, OutputHandle
  <1>1. CASE Wake
    BY <1>1 DEF Wake, Inv, TypeOK, Sound, OutputHandle, PCs, Flags, Working, Waiting, Woken,
                Life, Block, InFlight, Unheard, Queue, AfterEof
  <1>2. CASE Check
    BY <1>2 DEF Check, Inv, TypeOK, Sound, OutputHandle, PCs, Flags, Working, Waiting, Woken,
                Life, Block, InFlight, Unheard, Queue, AfterEof
  <1>3. ASSUME NEW n \in 1..MaxBytes, Write(n) PROVE Inv'
    <2>1. /\ pc = "write" /\ pc' = "signal"
          /\ n \in Nat /\ n \in 1..Len(o.buffer)
      BY <1>3, MaxBytesAssumption DEF Write
    <2>2. o' = [o EXCEPT !.lenwritten = n, !.writeerr = FALSE]
      BY <1>3 DEF Write
    <2>3. /\ o' \in OutputHandle /\ o'.lenwritten = n /\ ~o'.writeerr
          /\ o'.buffer = o.buffer /\ o'.queued_data = o.queued_data
          /\ o'.outgoingeof = o.outgoingeof /\ o'.given = o.given
          /\ o'.alloc = o.alloc /\ o'.busy = o.busy
          /\ o'.moribund = o.moribund /\ o'.done = o.done
          /\ o'.defunct = o.defunct /\ o'.evToMain = o.evToMain
          /\ o'.evFromMain = o.evFromMain
      BY <1>0, <2>1, <2>2 DEF OutputHandle
    <2>4. /\ Len(o.buffer) \in 1..Len(o.queued_data)
          /\ \A i \in 1..Len(o.buffer) : o.buffer[i] = Len(written) + i
      BY <1>0, <2>1 DEF Block, InFlight
    <2>5. /\ written' \in Seq(Nat) /\ Len(written') = Len(written) + n
          /\ \A i \in 1..Len(written') : written'[i] = i
      <3>1. PICK block : block = SubSeq(o.buffer, 1, n)
        OBVIOUS
      <3>2. block \in Seq(Nat) /\ Len(block) = n
        BY <1>0, <2>1, <3>1, Prefix DEF OutputHandle
      <3>3. \A i \in 1..n : block[i] = Len(written) + i
        <4>1. \A i \in 1..n : block[i] = o.buffer[i]
          BY <1>0, <2>1, <3>1, Prefix DEF OutputHandle
        <4> QED
          BY <1>0, <2>1, <2>4, <4>1 DEF OutputHandle
      <3>4. /\ written' = written \o block
            /\ \A i \in 1..Len(written) : written[i] = i
        BY <1>3, <3>1 DEF Write, Inv
      <3>5. /\ written' \in Seq(Nat) /\ Len(written') = Len(written) + n
            /\ \A i \in 1..Len(written') :
                   written'[i] = IF i <= Len(written) THEN written[i]
                                 ELSE block[i - Len(written)]
        BY <1>0, <3>2, <3>4, ConcatProperties
      <3> QED
        BY <1>0, <2>1, <3>3, <3>4, <3>5, SMTT(30)
    <2>6. Flags(o', pc')
      BY <1>0, <2>1, <2>3 DEF Flags, Working, Waiting, Woken, Life
    <2>7. Block(o', pc', written')
      BY <1>0, <2>1, <2>3, <2>4 DEF Block, InFlight, Unheard
    <2>8. Queue(o', pc', written')
      <3>1. Unheard(o', pc') /\ ~Unheard(o, pc)
        BY <2>1 DEF Unheard
      <3>2. o.given \in Nat
        BY <1>0 DEF OutputHandle
      <3>3. o \in OutputHandle /\ o' \in OutputHandle /\ Queue(o, pc, written)
            /\ Len(written) \in Nat /\ Len(written') = Len(written) + n
            /\ n \in Nat
        BY <1>0, <2>1, <2>3, <2>5
      <3> QED
        BY <2>3, <3>1, <3>2, <3>3 DEF Queue, OutputHandle
    <2>9. AfterEof(o', written')
      BY <1>0, <2>1, <2>3, <2>4 DEF AfterEof
    <2> QED
      BY <2>1, <2>3, <2>5, <2>6, <2>7, <2>8, <2>9 DEF Inv, TypeOK, Sound, PCs
  <1>4. CASE WriteFails
    <2>1. /\ pc = "write" /\ pc' = "fail" /\ written' = written
          /\ o' = [o EXCEPT !.lenwritten = 0, !.writeerr = TRUE]
      BY <1>4 DEF WriteFails
    <2>2. /\ o' \in OutputHandle /\ o'.writeerr
          /\ o'.buffer = o.buffer /\ o'.queued_data = o.queued_data
          /\ o'.outgoingeof = o.outgoingeof /\ o'.given = o.given
          /\ o'.alloc = o.alloc /\ o'.busy = o.busy
          /\ o'.moribund = o.moribund /\ o'.done = o.done
          /\ o'.defunct = o.defunct /\ o'.evToMain = o.evToMain
          /\ o'.evFromMain = o.evFromMain
      BY <1>0, <2>1 DEF OutputHandle
    <2>3. Flags(o', pc')
      BY <1>0, <2>1, <2>2 DEF Flags, Working, Waiting, Woken, Life
    <2>4. Block(o', pc', written')
      BY <1>0, <2>1, <2>2 DEF Block, InFlight, Unheard
    <2>5. Queue(o', pc', written') /\ AfterEof(o', written')
      BY <1>0, <2>1, <2>2 DEF Queue, Unheard, AfterEof
    <2> QED
      BY <2>1, <2>2, <2>3, <2>4, <2>5 DEF Inv, TypeOK, Sound, PCs
  <1>5. CASE Signal
    BY <1>5 DEF Signal, Inv, TypeOK, Sound, OutputHandle, PCs, Flags, Working, Waiting, Woken,
                Life, Block, InFlight, Unheard, Queue, AfterEof
  <1>6. CASE SignalFailed
    <2>1. /\ pc = "fail" /\ pc' = "exited" /\ written' = written
          /\ o' = [o EXCEPT !.evToMain = TRUE]
      BY <1>6 DEF SignalFailed
    <2>2. /\ o' \in OutputHandle /\ o'.evToMain
          /\ o'.buffer = o.buffer /\ o'.queued_data = o.queued_data
          /\ o'.outgoingeof = o.outgoingeof /\ o'.given = o.given
          /\ o'.alloc = o.alloc /\ o'.busy = o.busy
          /\ o'.moribund = o.moribund /\ o'.done = o.done
          /\ o'.defunct = o.defunct /\ o'.evFromMain = o.evFromMain
          /\ o'.writeerr = o.writeerr
      BY <1>0, <2>1 DEF OutputHandle
    <2>3. Flags(o', pc')
      BY <1>0, <2>1, <2>2 DEF Flags, Working, Waiting, Woken, Life
    <2>4. Block(o', pc', written')
      BY <1>0, <2>1, <2>2 DEF Block, InFlight, Unheard
    <2>5. Queue(o', pc', written') /\ AfterEof(o', written')
      BY <1>0, <2>1, <2>2 DEF Queue, Unheard, AfterEof
    <2> QED
      BY <2>1, <2>2, <2>3, <2>4, <2>5 DEF Inv, TypeOK, Sound, PCs
  <1>7. CASE Die
    BY <1>7 DEF Die, Inv, TypeOK, Sound, OutputHandle, PCs, Flags, Working, Waiting, Woken,
                Life, Block, InFlight, Unheard, Queue, AfterEof
  <1> QED
    BY <1>1, <1>2, <1>3, <1>4, <1>5, <1>6, <1>7 DEF Subthread
-----------------------------------------------------------------------------
(* The functions of the main thread.                                       *)

(* handle_try_output keeps a sound structure sound: it starts a write only *)
(* when none is under way, and sends EOF only when nothing is queued.      *)
LEMMA TryOutput ==
    ASSUME NEW x, NEW p \in PCs, NEW w \in Seq(Nat), Sound(x, p, w),
           x.busy \/ (x.alloc /\ ~x.moribund), NEW y \in handle_try_output(x)
    PROVE  Sound(y, p, w)
  <1>0. /\ x \in OutputHandle /\ Flags(x, p) /\ Block(x, p, w)
        /\ Queue(x, p, w) /\ AfterEof(x, w) /\ Len(w) \in Nat
    BY DEF Sound
  <1>1. CASE ~x.busy /\ x.queued_data # << >>
    <2>1. PICK n \in 1..Len(x.queued_data) :
            y = [x EXCEPT !.buffer = SubSeq(x.queued_data, 1, n),
                          !.evFromMain = TRUE, !.busy = TRUE]
      BY <1>1 DEF handle_try_output, StartWrite
    <2>2. PICK block : block = SubSeq(x.queued_data, 1, n)
      OBVIOUS
    <2>3. block \in Seq(Nat) /\ Len(block) = n /\ n \in Nat
      BY <1>0, <2>2, Prefix DEF OutputHandle
    <2>4. \A i \in 1..n : block[i] = x.queued_data[i]
      BY <1>0, <2>2, Prefix DEF OutputHandle
    <2>5. /\ y \in OutputHandle /\ y.buffer = block /\ y.evFromMain /\ y.busy
          /\ y.queued_data = x.queued_data /\ y.lenwritten = x.lenwritten
          /\ y.outgoingeof = x.outgoingeof /\ y.given = x.given
          /\ y.alloc = x.alloc /\ y.moribund = x.moribund
          /\ y.done = x.done /\ y.defunct = x.defunct
          /\ y.evToMain = x.evToMain /\ y.writeerr = x.writeerr
      BY <1>0, <2>1, <2>2, <2>3 DEF OutputHandle
    <2>6. /\ p \in {"wait", "exited"} /\ ~x.moribund /\ x.alloc
          /\ p = "wait" => ~x.evToMain
      BY <1>0, <1>1 DEF Flags, Working, Waiting, Woken, PCs
    <2>7. Flags(y, p)
      BY <1>0, <2>5, <2>6 DEF Flags, Working, Waiting, Woken, Life
    <2>8. ~Unheard(x, p) /\ ~Unheard(y, p)
      BY <2>5, <2>6 DEF Unheard
    <2>9. /\ Len(w) + Len(x.queued_data) = x.given
          /\ \A i \in 1..Len(x.queued_data) : x.queued_data[i] = Len(w) + i
      BY <1>0, <2>6, <2>8, SMTT(30) DEF Queue, OutputHandle
    <2>10. Block(y, p, w)
      <3>1. Len(block) \in 1..Len(x.queued_data)
        BY <1>0, <2>1, <2>3 DEF OutputHandle
      <3>2. \A i \in 1..Len(block) : block[i] = Len(w) + i
        <4>1. PICK q : q = x.queued_data
          OBVIOUS
        <4>2. \A i \in 1..n : block[i] = q[i] /\ i \in 1..Len(q)
          BY <1>0, <2>1, <2>3, <2>4, <4>1 DEF OutputHandle
        <4> QED
          BY <2>3, <2>9, <4>1, <4>2
      <3> QED
        BY <2>3, <2>4, <2>5, <2>6, <2>8, <3>1, <3>2 DEF Block
    <2>11. Queue(y, p, w) /\ AfterEof(y, w)
      BY <1>0, <2>5, <2>8 DEF Queue, AfterEof, OutputHandle
    <2> QED
      BY <2>5, <2>7, <2>10, <2>11 DEF Sound
  <1>2. CASE ~x.busy /\ x.queued_data = << >> /\ x.outgoingeof = "EOF_PENDING"
    <2>1. y = [x EXCEPT !.outgoingeof = "EOF_SENT"]
      BY <1>2 DEF handle_try_output
    <2>2. /\ y \in OutputHandle /\ y.buffer = x.buffer
          /\ y.evFromMain = x.evFromMain /\ y.busy = x.busy
          /\ y.queued_data = x.queued_data /\ y.lenwritten = x.lenwritten
          /\ y.given = x.given
          /\ y.alloc = x.alloc /\ y.moribund = x.moribund
          /\ y.done = x.done /\ y.defunct = x.defunct
          /\ y.evToMain = x.evToMain /\ y.writeerr = x.writeerr
      BY <1>0, <2>1 DEF OutputHandle
    <2>3. Flags(y, p)
      BY <1>0, <2>2 DEF Flags, Working, Waiting, Woken, Life
    <2>4. Block(y, p, w) /\ Queue(y, p, w)
      BY <1>0, <2>2 DEF Block, InFlight, Unheard, Queue, OutputHandle
    <2>5. ~Unheard(x, p) /\ Len(x.queued_data) = 0
      BY <1>0, <1>2 DEF Flags, Working, Waiting, Unheard, OutputHandle
    <2>6. AfterEof(y, w)
      BY <1>0, <1>2, <2>2, <2>5 DEF AfterEof, Queue, OutputHandle
    <2> QED
      BY <2>2, <2>3, <2>4, <2>6 DEF Sound
  <1>3. CASE y = x
    BY <1>3
  <1> QED
    BY <1>1, <1>2, <1>3 DEF handle_try_output

(* handle_free leaves the structure to a busy subthread, wakes an idle one *)
(* to die, and destroys the structure only when the subthread has gone.    *)
LEMMA FreeSound ==
    ASSUME NEW x, NEW p \in PCs, NEW w \in Seq(Nat), Sound(x, p, w),
           x.alloc, ~x.moribund
    PROVE  Sound(handle_free(x), p, w)
  <1> DEFINE y == handle_free(x)
  <1>0. /\ x \in OutputHandle /\ Flags(x, p) /\ Block(x, p, w)
        /\ Queue(x, p, w) /\ AfterEof(x, w)
    BY DEF Sound
  <1>1. /\ y \in OutputHandle /\ y.buffer = x.buffer
        /\ y.queued_data = x.queued_data /\ y.lenwritten = x.lenwritten
        /\ y.outgoingeof = x.outgoingeof /\ y.given = x.given
        /\ y.defunct = x.defunct /\ y.evToMain = x.evToMain
        /\ y.writeerr = x.writeerr
    BY <1>0 DEF handle_free, handle_destroy, signal_to_die, OutputHandle
  <1>2. \/ /\ x.busy /\ y.moribund /\ y.alloc /\ y.busy = x.busy
           /\ y.done = x.done /\ y.evFromMain = x.evFromMain
        \/ /\ ~x.busy /\ x.defunct /\ ~y.alloc /\ y.busy = x.busy
           /\ y.moribund = x.moribund
           /\ y.done = x.done /\ y.evFromMain = x.evFromMain
        \/ /\ ~x.busy /\ ~x.defunct /\ y.moribund /\ y.done /\ y.busy
           /\ y.evFromMain /\ y.alloc
    BY <1>0 DEF handle_free, handle_destroy, signal_to_die, OutputHandle
  <1> HIDE DEF y
  <1>3. Flags(y, p)
    BY <1>0, <1>1, <1>2 DEF Flags, Working, Waiting, Woken, Life
  <1>4. /\ InFlight(y, p) => InFlight(x, p)
        /\ Unheard(y, p) <=> Unheard(x, p)
    BY <1>0, <1>1, <1>2
       DEF InFlight, Unheard, Flags, Working, Waiting, Woken
  <1>5. Block(y, p, w)
    BY <1>0, <1>1, <1>4 DEF Block
  <1>6. Queue(y, p, w) /\ AfterEof(y, w)
    BY <1>0, <1>1, <1>2 DEF Queue, AfterEof
  <1> QED
    BY <1>1, <1>3, <1>5, <1>6 DEF Sound, y

(* handle_write queues the new bytes behind the old ones.                  *)
LEMMA WriteSound ==
    ASSUME NEW x, NEW p \in PCs, NEW w \in Seq(Nat), Sound(x, p, w),
           x.alloc, ~x.moribund, NEW n \in Nat, NEW y \in handle_write(x, n)
    PROVE  Sound(y, p, w)
  <1>0. /\ x \in OutputHandle /\ Flags(x, p) /\ Block(x, p, w)
        /\ Queue(x, p, w) /\ AfterEof(x, w)
    BY DEF Sound
  <1>1. PICK g, q, l : g = x.given /\ q = x.queued_data
                       /\ l = IF Unheard(x, p) THEN x.lenwritten ELSE 0
    OBVIOUS
  <1>2. g \in Nat /\ q \in Seq(Nat) /\ l \in Nat
    BY <1>0, <1>1 DEF OutputHandle
  <1>3. Len(w) + Len(q) = g + l /\ \A i \in 1..Len(q) : q[i] = i + g - Len(q)
    BY <1>0, <1>1 DEF Queue
  <1>4. PICK r : r = q \o [i \in 1..n |-> g + i]
    OBVIOUS
  <1>5. /\ Len(q) \in Nat /\ r \in Seq(Nat) /\ Len(r) = Len(q) + n
        /\ \A i \in 1..Len(q) : r[i] = q[i]
        /\ \A i \in 1..Len(r) : r[i] = i + (g + n) - Len(r)
    BY <1>2, <1>3, <1>4, Appended
  <1>6. PICK z : z = [x EXCEPT !.queued_data = r, !.given = g + n]
    OBVIOUS
  <1>7. x.outgoingeof = "EOF_NO" /\ y \in handle_try_output(z)
    BY <1>1, <1>4, <1>6 DEF handle_write
  <1>8. /\ z \in OutputHandle /\ z.buffer = x.buffer
        /\ z.queued_data = r /\ z.given = g + n
        /\ z.lenwritten = x.lenwritten /\ z.outgoingeof = x.outgoingeof
        /\ z.alloc = x.alloc /\ z.busy = x.busy /\ z.moribund = x.moribund
        /\ z.done = x.done /\ z.defunct = x.defunct
        /\ z.evToMain = x.evToMain /\ z.evFromMain = x.evFromMain
        /\ z.writeerr = x.writeerr
    <2>1. g + n \in Nat
      BY <1>2
    <2> QED
      BY <1>0, <1>5, <1>6, <2>1 DEF OutputHandle
  <1>9. Flags(z, p) /\ AfterEof(z, w)
    BY <1>0, <1>7, <1>8 DEF Flags, Working, Waiting, Woken, Life, AfterEof
  <1>10. /\ InFlight(z, p) <=> InFlight(x, p)
         /\ Unheard(z, p) <=> Unheard(x, p)
    BY <1>8 DEF InFlight, Unheard
  <1>11. Block(z, p, w)
    <2>1. \A m \in 1..Len(q) : m \in 1..Len(r) /\ r[m] = q[m]
      BY <1>5
    <2>2. InFlight(x, p) =>
            /\ Len(x.buffer) \in 1..Len(q)
            /\ \A i \in 1..Len(x.buffer) : x.buffer[i] = q[i]
            /\ \A i \in 1..Len(x.buffer) : x.buffer[i] = Len(w) + i
      BY <1>0, <1>1 DEF Block
    <2>3. InFlight(x, p) =>
            /\ Len(x.buffer) \in 1..Len(r)
            /\ \A i \in 1..Len(x.buffer) : i \in 1..Len(q)
      BY <1>0, <1>5, <2>1, <2>2 DEF OutputHandle
    <2>4. Unheard(x, p) => x.lenwritten \in 1..Len(r)
      BY <1>0, <1>1, <2>1 DEF Block
    <2>5. p = "fail" => Len(r) > 0
      <3>1. p = "fail" => Len(q) > 0
        BY <1>0, <1>1 DEF Block
      <3> QED
        BY <1>5, <3>1
    <2> QED
      BY <1>8, <1>10, <2>1, <2>2, <2>3, <2>4, <2>5 DEF Block
  <1>12. Queue(z, p, w)
    <2>1. Len(w) + Len(r) = (g + n) + l
      <3>1. PICK a, b, c : a = Len(w) /\ b = Len(q) /\ c = Len(r)
        OBVIOUS
      <3>2. a \in Nat /\ b \in Nat /\ g \in Nat /\ l \in Nat
        BY <1>2, <1>5, <3>1
      <3>3. c = b + n /\ a + b = g + l
        BY <1>3, <1>5, <3>1
      <3>4. a + c = (g + n) + l
        BY <3>2, <3>3
      <3> QED
        BY <3>1, <3>4
    <2>2. l = IF Unheard(z, p) THEN z.lenwritten ELSE 0
      BY <1>1, <1>8, <1>10
    <2> QED
      BY <1>5, <1>8, <2>1, <2>2 DEF Queue
  <1>13. Sound(z, p, w)
    BY <1>8, <1>9, <1>11, <1>12 DEF Sound
  <1> QED
    BY <1>7, <1>8, <1>13, TryOutput

(* handle_write_eof notes the request, and tries to honour it at once.     *)
LEMMA WriteEofSound ==
    ASSUME NEW x, NEW p \in PCs, NEW w \in Seq(Nat), Sound(x, p, w),
           x.alloc, ~x.moribund, NEW y \in handle_write_eof(x)
    PROVE  Sound(y, p, w)
  <1>0. /\ x \in OutputHandle /\ Flags(x, p) /\ Block(x, p, w)
        /\ Queue(x, p, w)
    BY DEF Sound
  <1>1. CASE x.outgoingeof = "EOF_NO"
    <2>1. PICK z : z = [x EXCEPT !.outgoingeof = "EOF_PENDING"]
      OBVIOUS
    <2>2. /\ z \in OutputHandle /\ z.buffer = x.buffer
          /\ z.queued_data = x.queued_data /\ z.given = x.given
          /\ z.lenwritten = x.lenwritten /\ z.outgoingeof = "EOF_PENDING"
          /\ z.alloc = x.alloc /\ z.busy = x.busy /\ z.moribund = x.moribund
          /\ z.done = x.done /\ z.defunct = x.defunct
          /\ z.evToMain = x.evToMain /\ z.evFromMain = x.evFromMain
          /\ z.writeerr = x.writeerr
      BY <1>0, <2>1 DEF OutputHandle
    <2>3. Flags(z, p) /\ AfterEof(z, w)
      BY <1>0, <2>2 DEF Flags, Working, Waiting, Woken, Life, AfterEof
    <2>4. Block(z, p, w) /\ Queue(z, p, w)
      BY <1>0, <2>2 DEF Block, InFlight, Unheard, Queue
    <2>5. Sound(z, p, w)
      BY <2>2, <2>3, <2>4 DEF Sound
    <2>6. y \in handle_try_output(z)
      BY <1>1, <2>1 DEF handle_write_eof
    <2> QED
      BY <2>2, <2>5, <2>6, TryOutput
  <1>2. CASE x.outgoingeof # "EOF_NO"
    BY <1>2 DEF handle_write_eof
  <1> QED
    BY <1>1, <1>2

(* Whatever a client calls leaves the structure sound; and busy, if the    *)
(* call was handle_free and the structure survived it.                     *)
LEMMA ClientSound ==
    ASSUME NEW x, NEW p \in PCs, NEW w \in Seq(Nat), Sound(x, p, w),
           x.alloc, ~x.moribund, NEW y \in ClientCalls(x)
    PROVE  /\ Sound(y, p, w)
           /\ ~x.defunct => y.busy \/ (y.alloc /\ ~y.moribund)
  <1>0. x \in OutputHandle /\ x.given \in Nat
    BY DEF Sound, OutputHandle
  <1>1. CASE y = handle_free(x)
    <2>1. Sound(y, p, w)
      BY <1>1, FreeSound
    <2>2. ~x.defunct => y.busy
      BY <1>0, <1>1 DEF handle_free, signal_to_die, OutputHandle
    <2> QED
      BY <2>1, <2>2
  <1>2. \A z : /\ z \in OutputHandle /\ z.alloc /\ ~z.moribund
               => \A v \in handle_try_output(z) : v.alloc /\ ~v.moribund
    BY ZenonT(30) DEF handle_try_output, StartWrite, OutputHandle
  <1>3. CASE y \in handle_write_eof(x)
    <2>1. Sound(y, p, w)
      BY <1>3, WriteEofSound
    <2>2. y.alloc /\ ~y.moribund
      <3>1. PICK z : z = [x EXCEPT !.outgoingeof = "EOF_PENDING"]
        OBVIOUS
      <3>2. z \in OutputHandle /\ z.alloc /\ ~z.moribund
        BY <1>0, <3>1 DEF OutputHandle
      <3>3. y \in handle_try_output(z) \/ y = x
        BY <1>3, <3>1 DEF handle_write_eof
      <3> QED
        BY <1>2, <3>2, <3>3
    <2> QED
      BY <2>1, <2>2
  <1>4. ASSUME NEW n \in 1..(MaxBytes - x.given), y \in handle_write(x, n)
        PROVE  Sound(y, p, w) /\ y.alloc /\ ~y.moribund
    <2>1. n \in Nat
      BY <1>0, MaxBytesAssumption
    <2>2. Sound(y, p, w)
      BY <1>4, <2>1, WriteSound
    <2>3. PICK r, g : y \in handle_try_output(
                            [x EXCEPT !.queued_data = r, !.given = g])
      BY <1>4 DEF handle_write
    <2> QED
      BY <1>0, <2>2, <2>3, ZenonT(30) DEF handle_try_output, StartWrite, OutputHandle
  <1> QED
    BY <1>1, <1>3, <1>4 DEF ClientCalls
-----------------------------------------------------------------------------
(* A step of the main thread preserves the invariant.                      *)
LEMMA MainInv == Inv /\ (GotEvent \/ Client) => Inv'
  <1> SUFFICES ASSUME Inv, GotEvent \/ Client PROVE Inv'
    OBVIOUS
  <1>0. /\ o \in OutputHandle /\ pc \in PCs /\ written \in Seq(Nat)
        /\ Flags(o, pc) /\ Block(o, pc, written) /\ Queue(o, pc, written)
        /\ AfterEof(o, written) /\ Sound(o, pc, written)
        /\ \A i \in 1..Len(written) : written[i] = i
    BY DEF Inv, TypeOK, Sound
  <1>1. pc' = pc /\ written' = written
    BY DEF GotEvent, GotEventMoribund, GotEventWritten, GotEventError, Client
  <1>2. SUFFICES Sound(o', pc, written)
    <2>1. o' \in OutputHandle
      BY <1>2 DEF Sound
    <2> QED
      BY <1>0, <1>1, <1>2, <2>1 DEF Inv, TypeOK
  <1>3. CASE Client
    BY <1>0, <1>3, ClientSound DEF Client, Owned
  <1>4. ASSUME HasEvent(o)
        PROVE  /\ o.alloc /\ o.busy /\ o.evToMain /\ pc \in {"wait", "exited"}
               /\ pc = "wait" => ~o.evFromMain /\ ~o.done /\ ~o.writeerr
    BY <1>0, <1>4 DEF HasEvent, Flags, Working, Waiting, Woken, PCs
  <1>5. CASE GotEventMoribund
    <2>1. o.moribund /\ HasEvent(o) /\ o' = got_event_moribund(EventTaken(o))
      BY <1>5 DEF GotEventMoribund
    <2>2. /\ o' \in OutputHandle /\ o'.buffer = o.buffer /\ ~o'.evToMain
          /\ o'.queued_data = o.queued_data /\ o'.given = o.given
          /\ o'.lenwritten = o.lenwritten /\ o'.outgoingeof = o.outgoingeof
          /\ o'.busy /\ o'.moribund /\ o'.done /\ o'.defunct = o.defunct
          /\ o'.writeerr = o.writeerr
          /\ ~o.done => o'.evFromMain /\ o'.alloc
      BY <1>0, <1>4, <2>1 DEF got_event_moribund, EventTaken, handle_destroy,
                              signal_to_die, OutputHandle
    <2>3. Flags(o', pc)
      BY <1>0, <1>4, <2>1, <2>2 DEF Flags, Working, Waiting, Woken, Life
    <2>4. Block(o', pc, written)
      BY <1>4, <2>1, <2>2 DEF Block, InFlight, Unheard
    <2>5. Queue(o', pc, written) /\ AfterEof(o', written)
      BY <1>0, <2>2 DEF Queue, AfterEof
    <2> QED
      BY <2>2, <2>3, <2>4, <2>5 DEF Sound
  <1>6. CASE GotEventWritten
    <2>1. /\ HasEvent(o) /\ ~o.moribund /\ ~o.writeerr
          /\ pc = "wait" /\ ~o.done /\ o.alloc
      BY <1>0, <1>4, <1>6 DEF GotEventWritten, Flags, Life
    <2>2. PICK q, l, g : q = o.queued_data /\ l = o.lenwritten /\ g = o.given
      OBVIOUS
    <2>3. q \in Seq(Nat) /\ l \in Nat /\ g \in Nat /\ Len(q) \in Nat
      BY <1>0, <2>2 DEF OutputHandle
    <2>4. Unheard(o, pc)
      BY <1>4, <2>1 DEF Unheard
    <2>5. /\ l \in 0..Len(q) /\ Len(written) + Len(q) = g + l
          /\ \A i \in 1..Len(q) : q[i] = i + g - Len(q)
      BY <1>0, <2>1, <2>2, <2>4 DEF Block, Queue
    <2>6. PICK r : r = SubSeq(q, l + 1, Len(q))
      OBVIOUS
    <2>7. /\ r \in Seq(Nat) /\ Len(r) = Len(q) - l
          /\ \A i \in 1..Len(r) : r[i] = q[l + i]
      BY <2>3, <2>5, <2>6, Suffix, ZenonT(30)
    <2>8. Len(written) + Len(r) = g /\ \A i \in 1..Len(r) : r[i] = i + g - Len(r)
      <3>1. Len(written) \in Nat
        BY <1>0
      <3> QED
        BY <2>3, <2>5, <2>7, <3>1
    <2>9. PICK ctx : ctx = [EventTaken(o) EXCEPT !.busy = FALSE,
                                                !.queued_data = r]
      OBVIOUS
    <2>10. PICK c \in {ctx} \cup ClientCalls(ctx) : o' \in handle_try_output(c)
      BY <1>6, <2>2, <2>6, <2>9 DEF GotEventWritten, EventTaken
    <2>11. /\ ctx \in OutputHandle /\ ctx.alloc /\ ~ctx.moribund
           /\ ~ctx.busy /\ ~ctx.evToMain /\ ~ctx.evFromMain /\ ~ctx.done
           /\ ~ctx.writeerr /\ ctx.defunct = o.defunct
           /\ ctx.queued_data = r /\ ctx.given = g
           /\ ctx.outgoingeof = o.outgoingeof
      BY <1>0, <1>4, <2>1, <2>2, <2>7, <2>9 DEF EventTaken, OutputHandle
    <2>12. Flags(ctx, pc) /\ ~ctx.defunct
      BY <1>0, <2>1, <2>11 DEF Flags, Working, Waiting, Woken, Life
    <2>13. Block(ctx, pc, written)
      BY <2>1, <2>11 DEF Block, InFlight, Unheard
    <2>14. Queue(ctx, pc, written)
      <3>1. ~Unheard(ctx, pc)
        BY <2>1, <2>11 DEF Unheard
      <3> QED
        BY <2>3, <2>8, <2>11, <3>1 DEF Queue
    <2>15. AfterEof(ctx, written)
      <3>1. o.outgoingeof = "EOF_SENT" => Len(q) = 0
        BY <1>0, <2>2 DEF AfterEof
      <3>2. o.outgoingeof # "EOF_SENT"
        BY <1>0, <2>2, <2>4, <3>1 DEF Block
      <3> QED
        BY <2>11, <3>2 DEF AfterEof
    <2>16. Sound(ctx, pc, written)
      BY <2>11, <2>12, <2>13, <2>14, <2>15 DEF Sound
    <2>17. Sound(c, pc, written) /\ (c.busy \/ (c.alloc /\ ~c.moribund))
      <3>1. CASE c = ctx
        BY <2>11, <2>16, <3>1
      <3>2. CASE c \in ClientCalls(ctx)
        BY <1>0, <2>11, <2>12, <2>16, <3>2, ClientSound
      <3> QED
        BY <3>1, <3>2
    <2> QED
      BY <1>0, <2>10, <2>17, TryOutput
  <1>7. CASE GotEventError
    <2>1. /\ HasEvent(o) /\ ~o.moribund /\ o.writeerr
          /\ pc = "exited" /\ o.alloc
      BY <1>0, <1>4, <1>7 DEF GotEventError
    <2>2. PICK ctx : ctx = [EventTaken(o) EXCEPT !.busy = FALSE,
                                                !.defunct = TRUE]
      OBVIOUS
    <2>3. o' \in {ctx} \cup ClientCalls(ctx)
      BY <1>7, <2>2 DEF GotEventError
    <2>4. /\ ctx \in OutputHandle /\ ctx.alloc /\ ~ctx.moribund
          /\ ~ctx.evToMain /\ ctx.done = o.done
          /\ ctx.queued_data = o.queued_data /\ ctx.given = o.given
          /\ ctx.outgoingeof = o.outgoingeof
      BY <1>0, <2>1, <2>2 DEF EventTaken, OutputHandle
    <2>5. Flags(ctx, pc)
      BY <1>0, <2>1, <2>4 DEF Flags, Working, Waiting, Woken, Life
    <2>6. Block(ctx, pc, written)
      BY <2>1 DEF Block, InFlight, Unheard
    <2>7. Queue(ctx, pc, written) /\ AfterEof(ctx, written)
      BY <1>0, <2>1, <2>4 DEF Queue, AfterEof, Unheard
    <2>8. Sound(ctx, pc, written)
      BY <2>4, <2>5, <2>6, <2>7 DEF Sound
    <2> QED
      BY <1>0, <2>3, <2>4, <2>8, ClientSound
  <1> QED
    BY <1>3, <1>5, <1>6, <1>7 DEF GotEvent

(* The inductive invariant is one.                                         *)
LEMMA Invariance == Safe => []Inv
  <1>1. Inv /\ [Next]_vars => Inv'
    <2>1. Inv /\ UNCHANGED vars => Inv'
      BY DEF vars, Inv, TypeOK, Sound, Flags, Working, Waiting, Woken, Life,
             Block, InFlight, Unheard, Queue, AfterEof
    <2> QED
      BY <2>1, SubthreadInv, MainInv DEF Next
  <1> QED
    BY <1>1, InitInv, PTL DEF Safe
-----------------------------------------------------------------------------
(* Type correctness of the output handle structure and the subthread.      *)
THEOREM TypeCorrect == Safe => []TypeOK
  <1>1. Inv => TypeOK
    BY DEF Inv
  <1> QED
    BY <1>1, Invariance, PTL

(* handle_output_threadfunc never uses a structure that handle_destroy has *)
(* freed, nor writes from a block that bufchain_consume has released,      *)
(* however handle_free, handle_write and the events interleave.            *)
THEOREM SubthreadSafe == Safe => []NoUseAfterFree
  <1>1. Inv => NoUseAfterFree
    <2> SUFFICES ASSUME Inv PROVE NoUseAfterFree
      OBVIOUS
    <2>1. /\ o \in OutputHandle /\ Flags(o, pc) /\ Block(o, pc, written)
      BY DEF Inv, Sound
    <2>2. pc # "exited" => o.alloc
      BY <2>1 DEF Flags, Life
    <2>3. ASSUME pc = "write" \/ (pc = "check" /\ ~o.done)
          PROVE  /\ Len(o.buffer) <= Len(o.queued_data)
                 /\ o.buffer = SubSeq(o.queued_data, 1, Len(o.buffer))
      <3>1. PICK b, q : b = o.buffer /\ q = o.queued_data
        OBVIOUS
      <3>2. b \in Seq(Nat) /\ q \in Seq(Nat)
        BY <2>1, <3>1 DEF OutputHandle
      <3>3. Len(b) \in 1..Len(q) /\ \A i \in 1..Len(b) : b[i] = q[i]
        BY <2>1, <2>3, <3>1 DEF Block, InFlight
      <3>4. Len(b) \in 0..Len(q) /\ Len(b) <= Len(q)
        BY <3>2, <3>3
      <3>5. /\ SubSeq(q, 1, Len(b)) \in Seq(Nat)
            /\ Len(SubSeq(q, 1, Len(b))) = Len(b)
            /\ \A i \in 1..Len(b) : SubSeq(q, 1, Len(b))[i] = q[i]
        BY <3>2, <3>4, Prefix
      <3>6. b = SubSeq(q, 1, Len(b))
        BY <3>2, <3>3, <3>5, SeqEqual
      <3> QED
        BY <3>1, <3>4, <3>6
    <2> QED
      BY <2>2, <2>3 DEF NoUseAfterFree
  <1> QED
    BY <1>1, Invariance, PTL

(* The other end of the handle gets the client's bytes once each and in    *)
(* order, whether WriteFile took all of a block or a part of it, and EOF   *)
(* (CloseHandle) after all of them and never during a write.               *)
THEOREM WriterGetsAll == Safe => []WriterView
  <1>1. Inv => WriterView
    <2> SUFFICES ASSUME Inv PROVE WriterView
      OBVIOUS
    <2>1. /\ o \in OutputHandle /\ Block(o, pc, written)
          /\ Queue(o, pc, written) /\ AfterEof(o, written)
          /\ \A i \in 1..Len(written) : written[i] = i
      BY DEF Inv, Sound
    <2>2. WrittenInOrder
      BY <2>1 DEF WrittenInOrder, Owned, Unaccounted, Queue, Unheard
    <2>3. EofAfterData
      <3>1. pc \in {"write", "signal", "fail"} => Len(o.queued_data) # 0
        BY <2>1 DEF Block, InFlight, Unheard, OutputHandle
      <3> QED
        BY <2>1, <3>1 DEF EofAfterData, AfterEof
    <2> QED
      BY <2>2, <2>3 DEF WriterView
  <1> QED
    BY <1>1, Invariance, PTL
=============================================================================
