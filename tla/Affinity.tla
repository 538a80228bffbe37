------------------------------ MODULE Affinity ------------------------------
(***************************************************************************)
(* The CPU affinities of rsystemd's shells (src/rsys/rsystemd.c): the     *)
(* RSYSD_SHELLS string (or -s) holds one field per shell, separated by     *)
(* ':'; rsysd_create_shells() counts the ':' to size the shell table, then *)
(* calls rsysd_get_affinity() on each field, which parses a list of CPU    *)
(* numbers and intervals into a bitmap and tells where it stopped.         *)
(*                                                                         *)
(* The parser is a goto state machine over the characters; here each of   *)
(* its states is an operator, the bitmap a set of CPU numbers.  '\0' is    *)
(* "NUL".  The bits that pdip_cpu_all() sets beyond pdip_cpu_nb() are never *)
(* read (pdip_cpu_isset() rejects them) and are left out.                  *)
(***************************************************************************)
EXTENDS Integers, Sequences, FiniteSets, FiniteSetsExt, TLC

CONSTANTS
  NbCpu,      \* pdip_cpu_nb(): number of online CPUs
  Alphabet,   \* characters of the RSYSD_SHELLS strings checked
  MaxLen      \* bound: their length

DigitSeq == <<"0", "1", "2", "3", "4", "5", "6", "7", "8", "9">>
Digits == {DigitSeq[k] : k \in 1..10}
DigitVal(c) == CHOOSE n \in 0..9 : DigitSeq[n + 1] = c

AllCpus == 0..(NbCpu - 1)

Ch(s, p) == IF p > Len(s) THEN "NUL" ELSE s[p]

-----------------------------------------------------------------------------
(* "start = digit; p++; while (isdigit(p[0])) { start *= 10; ... }" and     *)
(* "if (start >= pdip_cpu_nb()) start = pdip_cpu_nb() - 1".                *)
RECURSIVE NumEnd(_, _), NumVal(_, _, _)
NumEnd(s, p) == IF Ch(s, p) \in Digits THEN NumEnd(s, p + 1) ELSE p
NumVal(s, p, q) == IF q = p THEN 0 ELSE 10 * NumVal(s, p, q - 1) + DigitVal(s[q - 1])

Clamp(n) == IF n >= NbCpu THEN NbCpu - 1 ELSE n

Ok(cpus, p) == [rc |-> 0, cpus |-> cpus, offset |-> p - 1]
Err(p) == [rc |-> -1, cpus |-> {}, offset |-> p - 1]

RECURSIVE State1(_, _, _), State2Colon(_, _, _, _), State2(_, _, _, _),
          State3Strict(_, _, _, _),
          State3(_, _, _, _)

(* The beginning and state_1 (a new field after ','): NUL or ':' means all *)
(* CPUs, a number starts a field, '-' an interval from 0, ',' an empty    *)
(* field (all CPUs).                                                       *)
State1(s, p, cpus) ==
  LET c == Ch(s, p) IN
  CASE c \in {"NUL", ":"} -> Ok(AllCpus, p)
    [] c \in Digits -> State2(s, NumEnd(s, p), Clamp(NumVal(s, p, NumEnd(s, p))), cpus)
    [] c = "-" -> State3(s, p + 1, 0, cpus)
    [] c = "," -> State1(s, p + 1, AllCpus)
    [] OTHER -> Err(p)

(* Fault variant: ':' is stepped over like ','.                            *)
State2Colon(s, p, start, cpus) ==
  LET c == Ch(s, p) IN
  CASE c = "NUL" -> Ok(cpus \cup {start}, p)
    [] c \in {",", ":"} -> State1(s, p + 1, cpus \cup {start})
    [] c = "-" -> State3(s, p + 1, start, cpus)
    [] OTHER -> Err(p)

(* state_2: after a number.                                                *)
State2(s, p, start, cpus) ==
  LET c == Ch(s, p) IN
  CASE c \in {"NUL", ":"} -> Ok(cpus \cup {start}, p)
    [] c = "," -> State1(s, p + 1, cpus \cup {start})
    [] c = "-" -> State3(s, p + 1, start, cpus)
    [] OTHER -> Err(p)

(* Fault variant: an interval must not be a single CPU.                   *)
State3Strict(s, p, start, cpus) ==
  LET c == Ch(s, p)
      e == NumEnd(s, p)
      end == Clamp(NumVal(s, p, e))
  IN CASE c \in {"NUL", ":"} -> Ok(cpus \cup start..(NbCpu - 1), p)
       [] c \in Digits /\ end <= start -> Err(e)
       [] c \in Digits /\ Ch(s, e) = "," -> State1(s, e, cpus \cup start..end)
       [] c \in Digits /\ Ch(s, e) \in {"NUL", ":"} -> Ok(cpus \cup start..end, e)
       [] OTHER -> Err(IF c \in Digits THEN e ELSE p)

(* state_3: after '-'.  NUL or ':' closes the interval at the last CPU; a  *)
(* number closes it there ("end < start" is an error); after the number,   *)
(* ',' goes to state_1 without stepping over the ','.                      *)
State3(s, p, start, cpus) ==
  LET c == Ch(s, p)
      e == NumEnd(s, p)
      end == Clamp(NumVal(s, p, e))
  IN CASE c \in {"NUL", ":"} -> Ok(cpus \cup start..(NbCpu - 1), p)
       [] c \in Digits /\ end < start -> Err(e)
       [] c \in Digits /\ Ch(s, e) = "," -> State1(s, e, cpus \cup start..end)
       [] c \in Digits /\ Ch(s, e) \in {"NUL", ":"} -> Ok(cpus \cup start..end, e)
       [] OTHER -> Err(IF c \in Digits THEN e ELSE p)

(* rsysd_get_affinity(affinity, cpu_bitmap, &offset): pdip_cpu_zero(), then *)
(* the state machine from the beginning.                                   *)
GetAffinity(s) == State1(s, 1, {})

(* The shell count: one more than the number of ':'.                       *)
CountShells(s) == Cardinality({k \in 1..Len(s) : s[k] = ":"}) + 1

-----------------------------------------------------------------------------
(* The documented syntax (rsysd_get_affinity()'s header, and the spec:    *)
(* "each field a comma-separated list of CPU numbers or dashed ranges.    *)
(* Empty field = all CPUs"), numbers beyond the last CPU meaning the last *)
(* CPU.  Forms the parser also takes ("-2", "1-", "1,") are left out.      *)
IsNum(f) == f # <<>> /\ \A k \in 1..Len(f) : f[k] \in Digits

RECURSIVE SplitOn(_, _)
SplitOn(s, c) ==
  LET P == {k \in 1..Len(s) : s[k] = c}
  IN IF P = {} THEN <<s>>
     ELSE <<SubSeq(s, 1, Min(P) - 1)>> \o SplitOn(SubSeq(s, Min(P) + 1, Len(s)), c)

Val(f) == Clamp(NumVal(f, 1, Len(f) + 1))

(* An item "n" or "n-m" with n <= m, and the CPUs it names.               *)
Ranges(f) ==
  {r \in (1..Len(f)) \X (1..Len(f)) : \E k \in 2..(Len(f) - 1) :
      /\ IsNum(SubSeq(f, 1, k - 1)) /\ f[k] = "-" /\ IsNum(SubSeq(f, k + 1, Len(f)))
      /\ r = <<Val(SubSeq(f, 1, k - 1)), Val(SubSeq(f, k + 1, Len(f)))>>}

ItemOk(f) == IsNum(f) \/ \E r \in Ranges(f) : r[1] <= r[2]

ItemCpus(f) == IF IsNum(f) THEN {Val(f)} ELSE UNION {r[1]..r[2] : r \in Ranges(f)}

(* One shell's field is well formed, and the CPUs it names.               *)
RefOk(field) ==
  field = <<>> \/ \A k \in 1..Len(SplitOn(field, ",")) : ItemOk(SplitOn(field, ",")[k])

RefCpus(field) ==
  IF field = <<>> THEN AllCpus
  ELSE UNION {ItemCpus(SplitOn(field, ",")[k]) : k \in 1..Len(SplitOn(field, ","))}

(* Every field of the string is well formed.                               *)
Documented(s) == \A k \in 1..CountShells(s) : RefOk(SplitOn(s, ":")[k])

Inputs == UNION {[1..n -> Alphabet] : n \in 0..MaxLen}

-----------------------------------------------------------------------------
VARIABLES
  str,    \* the RSYSD_SHELLS string
  p1,     \* position of the field being parsed
  i,      \* index of the shell being configured
  aff,    \* the affinity of each shell configured so far
  pc      \* parse, done, error

vars == <<str, p1, i, aff, pc>>

Init ==
  /\ str \in Inputs
  /\ p1 = 1 /\ i = 0 /\ aff = <<>> /\ pc = "parse"

(* Fault variant: the ':' is not stepped over.                             *)
ParseFieldNoSkip ==
  /\ pc = "parse"
  /\ LET r == GetAffinity(SubSeq(str, p1, Len(str)))
         np == p1 + r.offset
     IN IF r.rc # 0
        THEN pc' = "error" /\ UNCHANGED <<p1, i, aff>>
        ELSE /\ aff' = Append(aff, r.cpus)
             /\ IF Ch(str, np) = ":"
                THEN p1' = np /\ i' = i + 1 /\ UNCHANGED pc
                ELSE p1' = np /\ pc' = "done" /\ UNCHANGED i
  /\ UNCHANGED str

(* One round of the loop of rsysd_create_shells(): parse the field at p1; *)
(* a syntax error fails the start-up (EINVAL); otherwise step over the    *)
(* offset and a ':' to the next field, or stop.                            *)
ParseField ==
  /\ pc = "parse"
  /\ LET r == GetAffinity(SubSeq(str, p1, Len(str)))
         np == p1 + r.offset
     IN IF r.rc # 0
        THEN pc' = "error" /\ UNCHANGED <<p1, i, aff>>
        ELSE /\ aff' = Append(aff, r.cpus)
             /\ IF Ch(str, np) = ":"
                THEN p1' = np + 1 /\ i' = i + 1 /\ UNCHANGED pc
                ELSE p1' = np /\ pc' = "done" /\ UNCHANGED i
  /\ UNCHANGED str

(* rsysd_create_shells() goes on to start the shells, or main() exits.    *)
Started == pc \in {"done", "error"} /\ UNCHANGED vars

Next == ParseField \/ Started

Spec == Init /\ [][Next]_vars /\ WF_vars(ParseField)

-----------------------------------------------------------------------------
TypeOK ==
  /\ str \in Inputs /\ p1 \in 1..(Len(str) + 1) /\ i \in 0..Len(str)
  /\ aff \in Seq(SUBSET AllCpus) /\ pc \in {"parse", "done", "error"}

(* assert(i == (rsysd_nb_shells - 1)): the loop configures exactly as     *)
(* many shells as the ':' count allocated, so no shell of the table is    *)
(* left without an affinity and none is written past its end.             *)
ShellCountAgrees ==
  pc = "done" => i = CountShells(str) - 1 /\ Len(aff) = CountShells(str)

(* The start-up accepts every RSYSD_SHELLS string written in the         *)
(* documented syntax (rsysd_create_shells() fails with EINVAL otherwise).  *)
AcceptsDocumentedSyntax ==
  pc # "parse" /\ Documented(str) => pc = "done"

(* Each shell of a string in the documented syntax gets the CPUs its      *)
(* field names.                                                            *)
AffinityAsWritten ==
  pc = "done" /\ Documented(str) =>
    \A k \in 1..Len(aff) : aff[k] = RefCpus(SplitOn(str, ":")[k])

=============================================================================
