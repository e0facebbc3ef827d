----------------------------- MODULE Hardware ------------------------------
(***************************************************************************)
(* The memory an agent reports for its accelerator, in GB                  *)
(* (agent.detectAccelerator): what nvidia-smi says of the first GPU, the   *)
(* system's memory if the GPU has none of its own, or the unified memory   *)
(* of Apple Silicon.                                                       *)
(***************************************************************************)
EXTENDS Integers

CONSTANT None   (* nothing, or a number that does not parse ("[N/A]")      *)

Number == Nat \cup {None}

(* smi: there is an nvidia-smi, and what it prints, in MiB; mem: what      *)
(* /proc/meminfo or hw.memsize tell, in KiB, None if they cannot be read.  *)
Host == [smi: BOOLEAN, total: Number, free: Number,
         os: {"linux", "darwin"}, mem: Number \ {0}, avail: Nat]

Atoi(v) == IF v = None THEN 0 ELSE v

GB(mem) == Atoi(mem) \div 1048576

linuxSystemMemory(h) == [total |-> GB(h.mem), free |-> GB(h.avail)]

vram(h) == [total |-> Atoi(h.total) \div 1024, free |-> Atoi(h.free) \div 1024]

Unified(h) == h.total = None \/ h.free = None \/ vram(h).total = 0

nvidiaGPU(h) ==
  IF Unified(h) /\ h.os = "linux" /\ h.mem # None
  THEN linuxSystemMemory(h) ELSE vram(h)

appleSilicon(h) == [total |-> GB(h.mem), free |-> GB(h.mem)]

detectAccelerator(h) ==
  IF h.smi THEN nvidiaGPU(h)
  ELSE IF h.os = "darwin" THEN appleSilicon(h)
  ELSE [total |-> 0, free |-> 0]
-----------------------------------------------------------------------------
(* What a driver and a system may say: free memory is part of the total.   *)
Consistent(h) ==
  /\ h.mem # None => h.avail <= h.mem
  /\ h.total # None /\ h.free # None => h.free <= h.total

(* The driver says what is free and not what there is, and there is no     *)
(* /proc/meminfo to turn to.                                               *)
OnlyFree(h) ==
  h.smi /\ h.total = None /\ h.free # None /\ ~(h.os = "linux" /\ h.mem # None)
=============================================================================
