------------------------------ MODULE PdipRecv ------------------------------
(***************************************************************************)
(* The reception pipeline of one PDIP object (src/pdip_lib.c): pdip_recv() *)
(* with and without a regular expression, with and without a timeout,      *)
(* the RECV_ON_THE_FLOW flag, and pdip_flush().                            *)
(*                                                                         *)
(* Bytes are abstracted to NL, the prompt (one symbol) and ordinary text.  *)
(* A buffer is a record [buf, cap, data]: the heap block holding it (or    *)
(* NULL), its capacity as passed around in *display_sz /                   *)
(* outstanding_data_sz, and its logical content (data_sz / offset bytes).  *)
(* The heap is the set of live blocks, so ownership transfers, realloc,    *)
(* strdup and free are visible.                                            *)
(*                                                                         *)
(* The controlled child is the environment: it writes bytes into the PTY   *)
(* and may exit, after which a read of the empty PTY fails (EIO).          *)
(***************************************************************************)
EXTENDS Naturals, Sequences, SequencesExt, FiniteSets, FiniteSetsExt

CONSTANTS
  Text,      \* ordinary (non-NL, non-prompt) bytes
  NL,        \* the '\n' byte
  Prompt,    \* the prompt printed by the child, taken as one byte
  NULL,      \* the null pointer
  Inc,       \* ctxp->buf_resize_increment
  BufIds,    \* heap block identities available to malloc/realloc/strdup
  MaxBytes,  \* bound: bytes the child writes in one behaviour
  MaxCalls   \* bound: pdip_recv()/pdip_flush() calls in one behaviour

ASSUME Inc \in Nat /\ Inc >= 2          \* pdip_set_user_cfg keeps it > 1
ASSUME NULL \notin BufIds

Byte == Text \cup {NL, Prompt}

(* The regular expressions a caller passes: none, "^<prompt>$" as used by *)
(* rsystemd and isys, "$" (a match of length 0), one that regcomp rejects. *)
Regex == {"none", "prompt", "eol", "bad"}

VARIABLES
  pty,        \* bytes written by the child and not yet read
  hup,        \* the child has exited (slave side closed)
  flow,       \* PDIP_FLAG_RECV_ON_THE_FLOW in ctxp->flags
  out,        \* outstanding_data / _sz / _offset
  disp,       \* the caller's *display / *display_sz / *data_sz
  heap,       \* live heap blocks
  pc,         \* where the caller's thread is
  call,       \* arguments of the current call
  result,     \* value returned by the last call
  received,   \* history: every byte read from the PTY
  delivered,  \* history: every byte handed to the caller
  calls       \* number of calls made

vars == <<pty, hup, flow, out, disp, heap, pc, call, result, received,
          delivered, calls>>

NoBuf == [buf |-> NULL, cap |-> 0, data |-> <<>>]

Buffer == [buf : BufIds \cup {NULL}, cap : Nat, data : Seq(Byte)]

(* A state of the object's buffers: outstanding, display and heap.        *)
St(o, d, h) == [o |-> o, d |-> d, h |-> h]

Now == St(out, disp, heap)

(* The block malloc/realloc(NULL)/strdup hands out.                       *)
Fresh(h) == Min(BufIds \ h)

-----------------------------------------------------------------------------
(* Buffer helpers of pdip_lib.c                                           *)

(* "If there is not enough space in the buffer, enlarge it": realloc of   *)
(* the display by the resize increment (a fresh block when it was NULL).  *)
GrowDisplay(s) ==
  IF s.d.cap - Len(s.d.data) < Inc
  THEN LET b == IF s.d.buf = NULL THEN Fresh(s.h) ELSE s.d.buf
       IN St(s.o, [s.d EXCEPT !.cap = @ + Inc, !.buf = b], s.h \cup {b})
  ELSE s

(* pdip_append_to_outstanding(): the display is appended to the           *)
(* outstanding data (copied and the display pointer reset when there are  *)
(* outstanding data, adopted as is otherwise).                            *)
(* Fault variant: the grow test forgets the terminating NUL.             *)
AppendNoNulRoom(s) ==
  IF Len(s.d.data) = 0 THEN s
  ELSE IF s.o.buf # NULL
       THEN LET grow == Len(s.d.data) > s.o.cap - Len(s.o.data)
            IN St([buf  |-> s.o.buf,
                   cap  |-> IF grow THEN s.o.cap + Len(s.d.data) ELSE s.o.cap,
                   data |-> s.o.data \o s.d.data],
                  NoBuf, s.h)
       ELSE St(s.d, NoBuf, s.h)

AppendToOutstanding(s) ==
  IF Len(s.d.data) = 0 THEN s
  ELSE IF s.o.buf # NULL
       THEN LET grow == Len(s.d.data) > s.o.cap - (Len(s.o.data) + 1)
            IN St([buf  |-> s.o.buf,
                   cap  |-> IF grow THEN s.o.cap + Len(s.d.data) ELSE s.o.cap,
                   data |-> s.o.data \o s.d.data],
                  NoBuf, s.h)
       ELSE St(s.d, NoBuf, s.h)

(* regexec() with REG_EXTENDED|REG_NEWLINE: rm_eo of the leftmost match,  *)
(* -1 when there is none.  "^<prompt>$" matches a prompt alone on its    *)
(* line (or at the end of the data); "$" matches before the first NL or  *)
(* at the end.                                                            *)
RegexEnd(s, re) ==
  CASE re = "prompt" ->
         LET I == {i \in 1..Len(s) : /\ s[i] = Prompt
                                     /\ i = 1 \/ s[i-1] = NL
                                     /\ i = Len(s) \/ s[i+1] = NL}
         IN IF I = {} THEN -1 ELSE Min(I)
    [] re = "eol" ->
         Min({j \in 0..Len(s) : j = Len(s) \/ s[j+1] = NL})

(* The end of the bytes returned on a match: a match ending at offset 0  *)
(* on a NL is moved past the NL.                                          *)
MatchEnd(s, re) ==
  LET e == RegexEnd(s, re)
  IN IF e = 0 /\ s[1] = NL THEN 1 ELSE e

(* pdip_look_for_regex(): append the display to the outstanding data and  *)
(* search it.  On a match the outstanding block becomes the display, cut  *)
(* at the end of the match, and the rest is strdup()ed as the new         *)
(* outstanding data.                                                      *)
Matches(s, re) == Len(s.o.data) > 0 /\ RegexEnd(s.o.data, re) # -1

(* look_for_regex() succeeds on the display appended to the outstanding.  *)
Found(s, re) == Matches(AppendToOutstanding(s), re)

(* Fault variant: the rest of the data stays in the returned block        *)
(* instead of being strdup()ed.                                           *)
LookForRegexNoDup(s, re) ==
  LET a == AppendToOutstanding(s)
  IN IF ~Matches(a, re) THEN a
     ELSE LET e == MatchEnd(a.o.data, re)
              rest == SubSeq(a.o.data, e + 1, Len(a.o.data))
          IN St(IF rest = <<>> THEN NoBuf
                ELSE [buf |-> a.o.buf, cap |-> a.o.cap, data |-> rest],
                [buf |-> a.o.buf, cap |-> a.o.cap,
                 data |-> SubSeq(a.o.data, 1, e)],
                a.h)

LookForRegex(s, re) ==
  LET a == AppendToOutstanding(s)
  IN IF ~Matches(a, re) THEN a
     ELSE LET e    == MatchEnd(a.o.data, re)
              rest == SubSeq(a.o.data, e + 1, Len(a.o.data))
              b    == Fresh(a.h)
          IN St(IF rest = <<>> THEN NoBuf
                ELSE [buf |-> b, cap |-> Len(rest) + 1, data |-> rest],
                [buf |-> a.o.buf, cap |-> a.o.cap,
                 data |-> SubSeq(a.o.data, 1, e)],
                IF rest = <<>> THEN a.h ELSE a.h \cup {b})

(* pdip_flush_outstanding(): hand the complete lines of the outstanding   *)
(* data to the caller and keep the last, incomplete, line.                *)
LastNL(s) == SelectLastInSeq(s, LAMBDA c : c = NL)

HasLine(s) == Len(s.o.data) > 0 /\ LastNL(s.o.data) > 0

(* Fault variants: the rest is taken one byte too far; the scan for the   *)
(* last NL is skipped and everything is returned.                         *)
FlushOutstandingSkip(s) ==
  LET k    == LastNL(s.o.data)
      rest == SubSeq(s.o.data, k + 2, Len(s.o.data))
      b    == Fresh(s.h)
  IN St(IF rest = <<>> THEN NoBuf
        ELSE [buf |-> b, cap |-> Len(rest) + 1, data |-> rest],
        [buf |-> s.o.buf, cap |-> s.o.cap, data |-> SubSeq(s.o.data, 1, k)],
        IF rest = <<>> THEN s.h ELSE s.h \cup {b})

FlushOutstandingAll(s) ==
  St(NoBuf, [buf |-> s.o.buf, cap |-> s.o.cap, data |-> s.o.data], s.h)

FlushOutstanding(s) ==
  LET k    == LastNL(s.o.data)
      rest == SubSeq(s.o.data, k + 1, Len(s.o.data))
      b    == Fresh(s.h)
  IN St(IF rest = <<>> THEN NoBuf
        ELSE [buf |-> b, cap |-> Len(rest) + 1, data |-> rest],
        [buf |-> s.o.buf, cap |-> s.o.cap, data |-> SubSeq(s.o.data, 1, k)],
        IF rest = <<>> THEN s.h ELSE s.h \cup {b})

(* pdip_flush_internal(): the outstanding block replaces the display      *)
(* (whose block is freed).                                                *)
FlushInternal(s) ==
  IF s.o.buf # NULL
  THEN St(NoBuf, s.o, IF s.d.cap # 0 THEN s.h \ {s.d.buf} ELSE s.h)
  ELSE St(s.o, [s.d EXCEPT !.data = <<>>], s.h)

-----------------------------------------------------------------------------
(* Ends of a call                                                         *)

Set(s) == out' = s.o /\ disp' = s.d /\ heap' = s.h

(* The call returns code with the buffers in state s.                     *)
Leave(code, s) ==
  /\ Set(s)
  /\ pc' = "idle"
  /\ result' = code
  /\ delivered' = IF code \in {"FOUND", "DATA"}
                  THEN delivered \o s.d.data ELSE delivered

(* The call loops for more data with the buffers in state s.              *)
Stay(s) == Set(s) /\ UNCHANGED <<pc, result, delivered>>

(* n bytes are read from the PTY into the display at offset data_sz.      *)
ReadInto(s, n) ==
  St(s.o, [s.d EXCEPT !.data = @ \o SubSeq(pty, 1, n)], s.h)

Consume(n) ==
  /\ pty' = SubSeq(pty, n + 1, Len(pty))
  /\ received' = received \o SubSeq(pty, 1, n)

(* Read sizes: pdip_read() returns what the PTY holds, at most room.      *)
ReadSizes(room) == 1..Min({Len(pty), room})

(* The regex was not found after a read: with RECV_ON_THE_FLOW the        *)
(* complete lines are returned, otherwise (or without one) read again.    *)
NoMatchAgain(s) ==
  IF flow /\ HasLine(s) THEN Leave("DATA", FlushOutstanding(s)) ELSE Stay(s)

-----------------------------------------------------------------------------
(* pdip_recv(): the call, up to its first wait                            *)

CallStarts(re, to) ==
  /\ pc = "idle"
  /\ call' = [re |-> re, to |-> to]
  /\ calls' = calls + 1

(* Data cleared on entry: "*data_sz = 0".                                 *)
Entry == St(out, [disp EXCEPT !.data = <<>>], heap)

(* No regex, outstanding data: they are returned at once.                 *)
RecvOutstanding(to) ==
  /\ CallStarts("none", to)
  /\ LET f == FlushInternal(Entry) IN
       /\ f.d.data # <<>>
       /\ Leave("DATA", f)
  /\ UNCHANGED <<pty, hup, flow, received>>

(* No regex, nothing outstanding: wait for the PTY (the display is grown  *)
(* first when there is no timeout).                                       *)
RecvRawWait(to) ==
  /\ CallStarts("none", to)
  /\ LET f == FlushInternal(Entry) IN
       /\ f.d.data = <<>>
       /\ IF to THEN Set(f)
          ELSE Set(IF f.d.cap < Inc THEN GrowDisplay(f) ELSE f)
  /\ pc' = IF to THEN "raw_timed" ELSE "raw_blocking"
  /\ UNCHANGED <<pty, hup, flow, result, received, delivered>>

(* regcomp() fails.                                                       *)
RecvBadRegex(to) ==
  /\ CallStarts("bad", to)
  /\ Leave("ERROR", Entry)
  /\ UNCHANGED <<pty, hup, flow, received>>

(* The regex matches in the outstanding data: FOUND without reading.      *)
RecvFoundOutstanding(re, to) ==
  /\ CallStarts(re, to)
  /\ Matches(Entry, re)
  /\ Leave("FOUND", LookForRegex(Entry, re))
  /\ UNCHANGED <<pty, hup, flow, received>>

(* No match in the outstanding data: read the PTY.                        *)
RecvWait(re, to) ==
  /\ CallStarts(re, to)
  /\ ~Matches(Entry, re)
  /\ Set(Entry)
  /\ pc' = IF to THEN "timed" ELSE "blocking"
  /\ UNCHANGED <<pty, hup, flow, result, received, delivered>>

-----------------------------------------------------------------------------
(* pdip_recv(): the read loops                                            *)

(* Regex, no timeout: one turn of the while(1) loop.                      *)
BlockingRead(n) ==
  /\ pc = "blocking"
  /\ LET g == GrowDisplay(Now) IN
       /\ n \in ReadSizes(g.d.cap - 1)
       /\ LET r == ReadInto(g, n)
              l == LookForRegex(r, call.re)
          IN IF Found(r, call.re) THEN Leave("FOUND", l) ELSE NoMatchAgain(l)
  /\ Consume(n)
  /\ UNCHANGED <<hup, flow, call, calls>>

(* Regex, timeout: select() reports data, pdip_read_until_timeout() reads *)
(* them; timeLeft is whether select() left some of the timeout.           *)
TimedRead(n, timeLeft) ==
  /\ pc = "timed"
  /\ LET g == GrowDisplay(Now) IN
       /\ n \in ReadSizes(g.d.cap - Len(g.d.data) - 1)
       /\ LET r == ReadInto(g, n)
              l == LookForRegex(r, call.re)
          IN IF Found(r, call.re) THEN Leave("FOUND", l)
             ELSE IF timeLeft THEN NoMatchAgain(l)
             ELSE IF flow /\ Len(l.o.data) > 0
                  THEN Leave("DATA", FlushInternal(l))
                  ELSE Leave("TIMEOUT", l)
  /\ Consume(n)
  /\ UNCHANGED <<hup, flow, call, calls>>

(* select() times out on a silent PTY.                                    *)
Timeout ==
  /\ pc \in {"timed", "raw_timed"}
  /\ pty = <<>>
  /\ ~hup
  /\ Leave("TIMEOUT", Now)
  /\ UNCHANGED <<pty, hup, flow, call, calls, received>>

(* The child is gone and the PTY is drained: read() fails (EIO).  The     *)
(* regex loops and select() grew the display before the read.             *)
ReadError ==
  /\ pc \in {"blocking", "timed", "raw_blocking", "raw_timed"}
  /\ pty = <<>>
  /\ hup
  /\ LET g == IF pc # "raw_blocking" THEN GrowDisplay(Now) ELSE Now
     IN Leave(IF Len(g.d.data) > 0 THEN "DATA" ELSE "ERROR", g)
  /\ UNCHANGED <<pty, hup, flow, call, calls, received>>

(* No regex, no timeout: one blocking read into the display.              *)
RawBlockingRead(n) ==
  /\ pc = "raw_blocking"
  /\ n \in ReadSizes(disp.cap - 1)
  /\ Leave("DATA", St(out, [disp EXCEPT !.data = SubSeq(pty, 1, n)], heap))
  /\ Consume(n)
  /\ UNCHANGED <<hup, flow, call, calls>>

(* No regex, timeout: select() then one read.                             *)
RawTimedRead(n) ==
  /\ pc = "raw_timed"
  /\ LET g == GrowDisplay(Now) IN
       /\ n \in ReadSizes(g.d.cap - Len(g.d.data) - 1)
       /\ Leave("DATA", ReadInto(g, n))
  /\ Consume(n)
  /\ UNCHANGED <<hup, flow, call, calls>>

-----------------------------------------------------------------------------
(* pdip_flush()                                                           *)

Flush ==
  /\ pc = "idle"
  /\ calls' = calls + 1
  /\ LET f == FlushInternal(Now) IN
       /\ Set(f)
       /\ delivered' = delivered \o f.d.data
  /\ result' = "FLUSHED"
  /\ UNCHANGED <<pty, hup, flow, pc, call, received>>

-----------------------------------------------------------------------------
(* The controlled child                                                   *)

ChildWrite(b) ==
  /\ ~hup
  /\ pty' = Append(pty, b)
  /\ UNCHANGED <<hup, flow, out, disp, heap, pc, call, result, received,
                 delivered, calls>>

ChildExit ==
  /\ ~hup
  /\ hup' = TRUE
  /\ UNCHANGED <<pty, flow, out, disp, heap, pc, call, result, received,
                 delivered, calls>>

-----------------------------------------------------------------------------
Init ==
  /\ pty = <<>>
  /\ hup = FALSE
  /\ flow \in BOOLEAN
  /\ out = NoBuf
  /\ disp = NoBuf
  /\ heap = {}
  /\ pc = "idle"
  /\ call = [re |-> "none", to |-> FALSE]
  /\ result = "NONE"
  /\ received = <<>>
  /\ delivered = <<>>
  /\ calls = 0

Next ==
  \/ \E to \in BOOLEAN :
       \/ RecvOutstanding(to)
       \/ RecvRawWait(to)
       \/ RecvBadRegex(to)
       \/ \E re \in Regex \ {"none", "bad"} :
            RecvFoundOutstanding(re, to) \/ RecvWait(re, to)
  \/ \E n \in 1..MaxBytes :
       \/ BlockingRead(n)
       \/ RawBlockingRead(n)
       \/ RawTimedRead(n)
       \/ \E timeLeft \in BOOLEAN : TimedRead(n, timeLeft)
  \/ Timeout
  \/ ReadError
  \/ Flush
  \/ \E b \in Byte : ChildWrite(b)
  \/ ChildExit

Spec == Init /\ [][Next]_vars

(* Bounds of a model-checking run.                                        *)
Bounded == Len(received) + Len(pty) <= MaxBytes /\ calls <= MaxCalls

-----------------------------------------------------------------------------
(* Properties                                                             *)

TypeOK ==
  /\ pty \in Seq(Byte)
  /\ hup \in BOOLEAN
  /\ flow \in BOOLEAN
  /\ out \in Buffer
  /\ disp \in Buffer
  /\ heap \subseteq BufIds
  /\ pc \in {"idle", "blocking", "timed", "raw_blocking", "raw_timed"}
  /\ call \in [re : Regex, to : BOOLEAN]
  /\ result \in {"NONE", "FOUND", "DATA", "TIMEOUT", "ERROR", "FLUSHED"}
  /\ received \in Seq(Byte)
  /\ delivered \in Seq(Byte)
  /\ calls \in Nat

(* No byte read from the PTY is lost, duplicated or reordered: what the   *)
(* calls of pdip_recv()/pdip_flush() have returned, followed by the       *)
(* outstanding data, is exactly what was read, across every split made by *)
(* look_for_regex, flush_outstanding and append_to_outstanding.           *)
Conservation == delivered \o out.data = received

(* The logical length of the outstanding data and of the display leaves   *)
(* room for the terminating NUL in their blocks (the grow arithmetic of   *)
(* append_to_outstanding and of the read loops).                          *)
NoOverflow ==
  /\ out.buf # NULL => Len(out.data) <= out.cap - 1
  /\ disp.buf # NULL => Len(disp.data) <= disp.cap - 1
  /\ out.buf = NULL => out.data = <<>>

(* The display handed to the caller and the outstanding data are never    *)
(* the same block, and neither is a freed block.                          *)
NoAlias ==
  /\ out.buf # NULL => out.buf \in heap /\ out.buf # disp.buf
  /\ disp.buf # NULL => disp.buf \in heap

(* Without a timeout, a DATA returned on the flow holds complete lines    *)
(* only (rsystemd's status parser rejects any other as a desync).         *)
FlowDataIsWholeLines ==
  (pc = "idle" /\ result = "DATA" /\ call.re \in {"prompt", "eol"}
     /\ ~call.to) => Last(disp.data) = NL

(* A regex call that ends in ERROR because read() failed has no bytes     *)
(* accumulated: the reception pipeline reports DATA when read() fails     *)
(* with bytes already accumulated and ERROR only with none.               *)
EofWithBytesIsData ==
  (pc = "idle" /\ result = "ERROR" /\ call.re \in {"prompt", "eol"}) =>
     out.data = <<>>

(* Every live heap block is either the caller's display or the            *)
(* outstanding data once a call has returned: nothing leaks.              *)
NoLeak ==
  pc = "idle" => heap = {out.buf, disp.buf} \ {NULL}

=============================================================================
