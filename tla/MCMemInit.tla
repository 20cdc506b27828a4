----------------------------- MODULE MCMemInit ------------------------------
(* Small memory maps: pages of 4 bytes, 64 addresses, the kernel in the    *)
(* second quarter of them.                                                 *)
EXTENDS MemInit

Entry(high, addr, len, type) ==
  [high |-> high, addr |-> addr, len |-> len, type |-> type]

(* The map of a PC: one available entry holds the kernel image, whatever   *)
(* else is available lies under 1 MB, and the rest is reserved.            *)
KernelEntries ==
  {Entry(0, a, l, Available) : a \in {10, 12, 16}, l \in {n \in 10 .. 58 : n % 2 = 0}}

LowEntries == {Entry(0, 0, l, t) : l \in {8, 15}, t \in {Available, Reserved}}

HighEntries == {Entry(0, 60, 3, Reserved), Entry(1, 0, 8, Reserved)}

PCMaps ==
  LET kernels == {e \in KernelEntries : e.addr + e.len > kernel_end /\ e.addr + e.len < 60}
  IN  {<<k>> : k \in kernels}
      \union {<<l, k>> : l \in LowEntries, k \in kernels}
      \union {<<k, l>> : l \in LowEntries, k \in kernels}
      \union {<<l, h, k>> : l \in LowEntries, h \in HighEntries, k \in kernels}

(* Maps in any order, in which the entries do not overlap and the kernel   *)
(* image lies in available memory, perhaps across two entries.             *)
AnyEntries ==
  {Entry(0, a, l, Available) : a \in {0, 12, 16, 20, 24, 28, 40}, l \in {4, 6, 8, 12, 18, 22}}

Apart(d, e) == d.addr + d.len <= e.addr \/ e.addr + e.len <= d.addr

HoldsKernel(entries) == KernelMemory \subseteq UNION {EntryMemory(e) : e \in entries}

Pairs == {<<d, e>> \in AnyEntries \X AnyEntries : Apart(d, e)}

AnyMaps ==
  {<<e>> : e \in {d \in AnyEntries : HoldsKernel({d})}}
  \union {p \in Pairs : HoldsKernel({p[1], p[2]})}
  \union {t \in {<<p[1], p[2], e>> : p \in Pairs, e \in AnyEntries} :
            /\ Apart(t[1], t[3]) /\ Apart(t[2], t[3])
            /\ HoldsKernel({t[1], t[2], t[3]})}

(* Maps of a PC whose memory ends at the last address, or goes on behind.  *)
TopMaps ==
  {m \in {<<k>> : k \in KernelEntries} \union {<<l, k>> : l \in LowEntries, k \in KernelEntries} :
     m[Len(m)].addr + m[Len(m)].len >= ADDR_MOD}

(* Maps of four available entries, the one with the kernel among them, in  *)
(* any order: more than bitmap_stack has room for, with entries that are   *)
(* rejected between others that are not.                                   *)
ChainEntries ==
  {Entry(0, a[1], a[2], Available) :
     a \in {<<0, 8>>, <<16, 10>>, <<26, 4>>, <<30, 8>>, <<38, 16>>, <<54, 6>>}}

ChainMaps ==
  {m \in [1 .. 4 -> ChainEntries] :
     /\ \A j, k \in 1 .. 4 : j # k => m[j] # m[k]
     /\ HoldsKernel({m[j] : j \in 1 .. 4})}

(* Maps in which an entry above 4 GB follows that of the kernel, or comes  *)
(* before it.                                                              *)
FarMaps ==
  LET kernel == Entry(0, 16, 30, Available)
      far    == {Entry(1, a, l, Available) : a \in {0, 18, 20, 32}, l \in {2, 6, 8, 28}}
  IN  {<<kernel, f>> : f \in far} \union {<<f, kernel>> : f \in far}

AllMaps == FarMaps \union PCMaps \union TopMaps \union AnyMaps \union ChainMaps

=============================================================================
