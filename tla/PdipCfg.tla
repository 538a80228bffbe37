------------------------------- MODULE PdipCfg -------------------------------
(***************************************************************************)
(* The CPU-affinity bitmap of a PDIP object (src/pdip_lib.c): the bitmap   *)
(* API pdip_cpu_alloc/free/zero/all/set/unset/isset/dup, and the object's  *)
(* configuration as pdip_new(), pdip_exec() and pdip_delete() copy, save,  *)
(* restore and free it.  The application builds a bitmap, hands it to      *)
(* pdip_new() through cfg.cpu, may go on changing or freeing it, and runs  *)
(* a program on the object, again after it died.  The child applies the   *)
(* affinity with sched_setaffinity() before execvp().                      *)
(*                                                                         *)
(* Memory is a set of heap blocks, each used or free with its bytes.  A    *)
(* freed block keeps its bytes (the case most favourable to the code), and *)
(* malloc() returns any free block, the one just freed included.  The      *)
(* object's life beyond its configuration (ZOMBIE, pdip_status, signals)   *)
(* is PdipReaper's; here the program simply dies.                          *)
(***************************************************************************)
EXTENDS Integers, FiniteSets, Bitwise

CONSTANTS
  NbCpu,     \* pdip_nb_cpu
  Blocks,    \* heap blocks of PDIP_NB_BYTES_FOR_CPU() bytes
  NULL,
  UserCpus,  \* CPU numbers the application passes to pdip_cpu_(un)set()
  MaxCalls   \* bound: API calls in one behaviour

ASSUME NbCpu \in Nat \ {0} /\ NULL \notin Blocks /\ UserCpus \subseteq Nat

(* PDIP_NB_BYTES_FOR_CPU(): ((pdip_nb_cpu + 0x7) >> 3).                     *)
NbBytes == shiftR(NbCpu + 7, 3)
Bytes == [0..(NbBytes - 1) -> 0..255]
Zeros == [i \in 0..(NbBytes - 1) |-> 0]
AllCpus == 0..(NbCpu - 1)

VARIABLES
  heap,     \* each block: [used, bytes]
  ucpu,     \* the application's bitmap (cfg.cpu), or NULL
  want,     \* history: the CPUs the application set in it
  ostate,   \* the object: "FREED", "INIT", "ALIVE", "DEAD"
  ocpu,     \* ctxp->cpu
  ocfg,     \* history: the CPUs cfg.cpu held at pdip_new(), NULL if none
  restored, \* history: the object's cfg went through get/free/set_user_cfg
  epc,      \* pdip_exec(): "idle", or "fork" once the state is handled
  child,    \* CPUs the child set, {} if it inherited its affinity; NULL: none
  calls

vars == <<heap, ucpu, want, ostate, ocpu, ocfg, restored, epc, child, calls>>

-----------------------------------------------------------------------------
(* The bitmap operations.                                                  *)

(* cpu[n >> 3] and (1 << (n & 0x7)).                                        *)
ByteOf(n) == shiftR(n, 3)
BitOf(n) == 2 ^ (n & 7)

(* pdip_cpu_isset(): -1 for n >= pdip_nb_cpu, else the bit.                 *)
IsSet(bytes, n) == n < NbCpu /\ (bytes[ByteOf(n)] & BitOf(n)) # 0

CpuSetOf(bytes) == {n \in AllCpus : IsSet(bytes, n)}

(* Fault variant: cpu[n >> 3] += (1 << (n & 0x7)).                          *)
CpuSetBytesAdd(bytes, n) == [bytes EXCEPT ![ByteOf(n)] = @ + BitOf(n)]

(* pdip_cpu_set(): cpu[n >> 3] |= (1 << (n & 0x7)).                         *)
CpuSetBytes(bytes, n) == [bytes EXCEPT ![ByteOf(n)] = @ | BitOf(n)]

(* Fault variant: cpu[n >> 3] ^= (1 << (n & 0x7)).                          *)
CpuUnsetBytesToggle(bytes, n) == [bytes EXCEPT ![ByteOf(n)] = @ ^^ BitOf(n)]

(* pdip_cpu_unset(): cpu[n >> 3] &= ~(1 << (n & 0x7)), on a byte.           *)
CpuUnsetBytes(bytes, n) == [bytes EXCEPT ![ByteOf(n)] = @ & (255 - BitOf(n))]

Free(h, b) == IF b = NULL THEN h ELSE [h EXCEPT ![b].used = FALSE]

FreeBlocks(h) == {b \in Blocks : ~h[b].used}

SetUserCfg(src, h) ==
  IF src = NULL THEN ocpu' = NULL /\ heap' = h
  ELSE \E b \in FreeBlocks(h) :
         /\ ocpu' = b
         /\ heap' = [h EXCEPT ![b] = [used |-> TRUE,
                        bytes |-> IF b = src THEN Zeros ELSE h[src].bytes]]

(* pdip_get_user_cfg() saves ctxp->cpu; pdip_free_resources() frees it;    *)
(* pdip_set_user_cfg() copies the saved pointer's bytes.                    *)
Restore == SetUserCfg(ocpu, Free(heap, ocpu))

(* The child: for i < saved_pdip_nb_cpu, CPU_SET(i) if pdip_cpu_isset();   *)
(* sched_setaffinity() only if one bit is set.                              *)
Applied(cpu) == IF cpu = NULL THEN {} ELSE CpuSetOf(heap[cpu].bytes)

-----------------------------------------------------------------------------
(* The application's calls.                                                *)

UserCall == epc = "idle" /\ calls < MaxCalls /\ calls' = calls + 1

(* pdip_cpu_alloc(): malloc() and memset(0).                                *)
CpuAlloc ==
  /\ UserCall /\ ucpu = NULL
  /\ \E b \in FreeBlocks(heap) :
       heap' = [heap EXCEPT ![b] = [used |-> TRUE, bytes |-> Zeros]] /\ ucpu' = b
  /\ want' = {}
  /\ UNCHANGED <<ostate, ocpu, ocfg, restored, epc, child>>

(* pdip_cpu_set(), pdip_cpu_unset(): EINVAL when n >= pdip_nb_cpu.         *)
CpuSet(n) ==
  /\ UserCall /\ ucpu # NULL
  /\ IF n >= NbCpu THEN UNCHANGED <<heap, want>>
     ELSE heap' = [heap EXCEPT ![ucpu].bytes = CpuSetBytes(@, n)]
          /\ want' = want \cup {n}
  /\ UNCHANGED <<ucpu, ostate, ocpu, ocfg, restored, epc, child>>

CpuUnset(n) ==
  /\ UserCall /\ ucpu # NULL
  /\ IF n >= NbCpu THEN UNCHANGED <<heap, want>>
     ELSE heap' = [heap EXCEPT ![ucpu].bytes = CpuUnsetBytes(@, n)]
          /\ want' = want \ {n}
  /\ UNCHANGED <<ucpu, ostate, ocpu, ocfg, restored, epc, child>>

(* pdip_cpu_zero(), pdip_cpu_all(): memset() with 0 or 0xFF.               *)
CpuFill(v, cpus) ==
  /\ UserCall /\ ucpu # NULL
  /\ heap' = [heap EXCEPT ![ucpu].bytes = [i \in 0..(NbBytes - 1) |-> v]]
  /\ want' = cpus
  /\ UNCHANGED <<ucpu, ostate, ocpu, ocfg, restored, epc, child>>

(* pdip_cpu_free().                                                         *)
CpuFree ==
  /\ UserCall /\ ucpu # NULL
  /\ heap' = Free(heap, ucpu) /\ ucpu' = NULL
  /\ UNCHANGED <<want, ostate, ocpu, ocfg, restored, epc, child>>

(* pdip_new(&cfg): pdip_init_ctx() then pdip_set_user_cfg().                *)
PdipNew ==
  /\ UserCall /\ ostate = "FREED"
  /\ SetUserCfg(ucpu, heap)
  /\ ostate' = "INIT"
  /\ ocfg' = IF ucpu = NULL THEN NULL ELSE want
  /\ restored' = FALSE
  /\ UNCHANGED <<ucpu, want, epc, child>>

(* pdip_exec() on INIT, or on DEAD, whose configuration is saved, freed   *)
(* with the rest and restored, leaving the object INIT.                     *)
ExecStart ==
  /\ UserCall /\ ostate \in {"INIT", "DEAD"}
  /\ IF ostate = "DEAD"
       THEN Restore /\ ostate' = "INIT" /\ restored' = TRUE
       ELSE UNCHANGED <<heap, ocpu, ostate, restored>>
  /\ epc' = "fork"
  /\ UNCHANGED <<ucpu, want, ocfg, child>>

(* child_ctx.cpu = pdip_cpu_dup(ctxp->cpu); fork(); the child applies the  *)
(* copy; the father sets ALIVE.  The copy stays allocated in the father.   *)
ExecFork ==
  /\ epc = "fork"
  /\ IF ocpu = NULL THEN UNCHANGED heap
     ELSE \E d \in FreeBlocks(heap) :
            heap' = [heap EXCEPT ![d] = [used |-> TRUE, bytes |-> heap[ocpu].bytes]]
  /\ child' = Applied(ocpu)
  /\ ostate' = "ALIVE" /\ epc' = "idle"
  /\ UNCHANGED <<ucpu, want, ocpu, ocfg, restored, calls>>

(* error: a pty call or fork() failed: get, free and set the user cfg.     *)
ExecError ==
  /\ epc = "fork"
  /\ Restore /\ restored' = TRUE
  /\ ostate' = "INIT" /\ epc' = "idle"
  /\ UNCHANGED <<ucpu, want, ocfg, child, calls>>

(* The program ends and is reaped (ZOMBIE then DEAD in PdipReaper).        *)
ChildDies ==
  /\ ostate = "ALIVE" /\ ostate' = "DEAD"
  /\ UNCHANGED <<heap, ucpu, want, ocpu, ocfg, restored, epc, child, calls>>

(* pdip_delete(): the child is terminated, pdip_free_resources() frees     *)
(* ctxp->cpu, and the context is freed.                                     *)
PdipDelete ==
  /\ UserCall /\ ostate # "FREED"
  /\ heap' = Free(heap, ocpu) /\ ocpu' = NULL
  /\ ostate' = "FREED" /\ ocfg' = NULL /\ child' = NULL
  /\ UNCHANGED <<ucpu, want, restored, epc>>

Done == calls = MaxCalls /\ epc = "idle" /\ UNCHANGED vars

Init ==
  /\ heap = [b \in Blocks |-> [used |-> FALSE, bytes |-> Zeros]]
  /\ ucpu = NULL /\ want = {}
  /\ ostate = "FREED" /\ ocpu = NULL /\ ocfg = NULL /\ restored = FALSE
  /\ epc = "idle" /\ child = NULL /\ calls = 0

Next ==
  \/ CpuAlloc \/ CpuFree \/ CpuFill(0, {}) \/ CpuFill(255, AllCpus)
  \/ \E n \in UserCpus : CpuSet(n) \/ CpuUnset(n)
  \/ PdipNew \/ ExecStart \/ ExecFork \/ ExecError \/ ChildDies \/ PdipDelete
  \/ Done

Spec == Init /\ [][Next]_vars

-----------------------------------------------------------------------------

TypeOK ==
  /\ heap \in [Blocks -> [used : BOOLEAN, bytes : Bytes]]
  /\ ucpu \in Blocks \cup {NULL} /\ ocpu \in Blocks \cup {NULL}
  /\ want \subseteq AllCpus /\ ocfg \in SUBSET AllCpus \cup {NULL}
  /\ ostate \in {"FREED", "INIT", "ALIVE", "DEAD"}
  /\ epc \in {"idle", "fork"} /\ restored \in BOOLEAN
  /\ child \in SUBSET AllCpus \cup {NULL}
  /\ calls \in 0..MaxCalls

(* What pdip_cpu_isset() reports of the application's bitmap is what its  *)
(* pdip_cpu_set/unset/zero/all() calls asked for: the byte and bit         *)
(* arithmetic keeps CPUs 0..7 and 8.. apart and unset clears only its bit. *)
CpuBitsAgree == ucpu # NULL => CpuSetOf(heap[ucpu].bytes) = want

Expected(cfg) == IF cfg = NULL THEN {} ELSE cfg

ConfigSurvives == child # NULL => child = Expected(ocfg)

(* Every allocated bitmap is the application's or the object's.            *)
NoLeak == \A b \in Blocks : heap[b].used => b \in {ucpu, ocpu}

=============================================================================
