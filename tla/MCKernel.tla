------------------------------ MODULE MCKernel -------------------------------
(***************************************************************************)
(* Eight parts of the kernel and the C library that share no state.  Each  *)
(* behaviour is one of one part, so that the states of the parts add up    *)
(* instead of multiplying.                                                 *)
(***************************************************************************)
EXTENDS Heaps, PhysMem, PageTables, UserMem, ElfLoad, ReadyRing

VARIABLE part       \* the part that runs

allvars == <<part, kvars, lvars, avars, pvars, ptvars, umvars, elfvars, ringvars>>

MCEntry(b, n, t) == [base |-> b, length |-> n, type |-> t]
MCMemoryMaps == {
    <<MCEntry(0, 6, "usable"), MCEntry(6, 2, "reserved"), MCEntry(8, 16, "usable"),
      MCEntry(24, 6, "reclaimable"), MCEntry(30, 2, "reserved"), MCEntry(32, 16, "usable"),
      MCEntry(48, 5, "reserved")>>,
    <<MCEntry(0, 40, "usable"), MCEntry(44, 8, "usable")>>,
    <<MCEntry(0, 8, "usable"), MCEntry(8, 28, "reclaimable"), MCEntry(36, 2, "reserved"),
      MCEntry(40, 24, "usable")>>,
    <<MCEntry(4, 4, "usable")>> }
MCUserPages == {<<0, 0, 0, 0>>, <<0, 0, 0, 1>>, <<0, 1, 0, 0>>}
MCKernelPages == {<<1, 0, 0, 0>>}

\* Programs: one segment with every fit of file part, zeroes and pages, one
\* header that is not loaded and a second segment; one whose end wraps; and files
\* that are refused.
MCSeg(load, off, va, fs, ms, fl) ==
    [load |-> load, offset |-> off, vaddr |-> va, filesz |-> fs, memsz |-> ms, flags |-> fl]
MCImages ==
    {[size |-> sz, header |-> "ok", ph_end |-> 2,
      segments |-> <<MCSeg(TRUE, 2, va, fs, ms, {"exec"}), MCSeg(FALSE, 0, 0, 0, 0, {}),
                     MCSeg(TRUE, 5, 13, f2, 3, {"write"})>>] :
        sz \in {6, 8}, va \in 4 .. 6, fs \in 0 .. 5, ms \in {0, 2, 5, 6}, f2 \in {0, 1, 3}}
    \cup {[size |-> 6, header |-> "ok", ph_end |-> 2, segments |-> <<MCSeg(TRUE, 62, 5, 3, 3, {"exec"})>>]}
    \cup {[size |-> 3, header |-> h, ph_end |-> e, segments |-> <<>>] : h \in {"ok", "bad"}, e \in {3, 4}}

\* A part that does not run has one state only.
Init ==
    /\ part \in {"kheap", "libc", "arena", "phys", "tables", "mmap", "elf", "ring"}
    /\ KHeapInit /\ LibcHeapInit /\ VmmArenaInit /\ PhysMemInit /\ PageTablesInit /\ UserMemInit
    /\ ElfInit /\ RingInit
    /\ part = "phys" \/ mpr = <<MCEntry(4, 4, "usable")>>
    /\ part = "elf" \/ (image.header = "bad" /\ image.ph_end = 3)

Next ==
    /\ UNCHANGED part
    /\ \/ /\ part = "kheap" /\ KHeapNext
          /\ UNCHANGED <<lvars, avars, pvars, ptvars, umvars, elfvars, ringvars>>
       \/ /\ part = "libc" /\ LibcHeapNext
          /\ UNCHANGED <<kvars, avars, pvars, ptvars, umvars, elfvars, ringvars>>
       \/ /\ part = "arena" /\ VmmArenaNext
          /\ UNCHANGED <<kvars, lvars, pvars, ptvars, umvars, elfvars, ringvars>>
       \/ /\ part = "phys" /\ PhysMemNext
          /\ UNCHANGED <<kvars, lvars, avars, ptvars, umvars, elfvars, ringvars>>
       \/ /\ part = "tables" /\ PageTablesNext
          /\ UNCHANGED <<kvars, lvars, avars, pvars, umvars, elfvars, ringvars>>
       \/ /\ part = "mmap" /\ UserMemNext
          /\ UNCHANGED <<kvars, lvars, avars, pvars, ptvars, elfvars, ringvars>>
       \/ /\ part = "elf" /\ ElfNext
          /\ UNCHANGED <<kvars, lvars, avars, pvars, ptvars, umvars, ringvars>>
       \/ /\ part = "ring" /\ RingNext
          /\ UNCHANGED <<kvars, lvars, avars, pvars, ptvars, umvars, elfvars>>

Spec == Init /\ [][Next]_allvars
=============================================================================
