------------------------------ MODULE ElfLoad --------------------------------
(***************************************************************************)
(* Loading a program: elf_load of kernel/packages/elf/elf.c.               *)
(*                                                                         *)
(* Memory is a function of user addresses.  Its values are the offset of   *)
(* the byte of the file that was put there, ZERO, STALE for a page that    *)
(* was mapped and not written (vmm_space_alloc does not clear pages) and   *)
(* UNMAPPED.  Two segments in one page are left out: the second            *)
(* vmm_space_alloc would replace the page of the first.                    *)
(***************************************************************************)
EXTENDS Integers, Sequences

CONSTANTS
    ELF_PAGE,                   \* bytes in a page
    ELF_WORD,                   \* 2^64, where the sums of header fields wrap
    USER_STACK_BASE, USER_STACK_TOP,
    Images                      \* files [size, header, ph_end, segments]; ph_end as
                                \* elf_check computes it

ASSUME ElfAssumption ==
    /\ ELF_PAGE \in Nat \ {0} /\ ELF_WORD \in Nat /\ USER_STACK_TOP < ELF_WORD
    /\ USER_STACK_BASE \in Nat /\ USER_STACK_TOP \in Nat
    /\ USER_STACK_BASE % ELF_PAGE = 0 /\ USER_STACK_BASE < USER_STACK_TOP

UNMAPPED == -3
STALE == -2
ZERO == -1

VARIABLES
    image,          \* the file, constant
    step,           \* what elf_load does next
    seg,            \* i, from 1
    copying,        \* file_src, file_rem, va_cursor, mem_rem
    contents,         \* the space of the new process
    access,         \* of its pages: flags of vmm_space_alloc
    proc            \* the process exists: "none", "created" or "scheduled"

elfvars == <<image, step, seg, copying, contents, access, proc>>

UserSpace == 0 .. USER_STACK_TOP - 1
Pages == 0 .. (USER_STACK_TOP - 1) \div ELF_PAGE
at_rest == [src |-> 0, file |-> 0, va |-> 0, mem |-> 0]

ElfInit ==
    /\ image \in Images
    /\ step = "check" /\ seg = 1 /\ copying = at_rest
    /\ contents = [a \in UserSpace |-> UNMAPPED]
    /\ access = [p \in Pages |-> {}]
    /\ proc = "none"

elf_align_down(v) == v - (v % ELF_PAGE)
elf_align_up(v) == elf_align_down(v + ELF_PAGE - 1)

\* The pages of a segment; they are its own, and lie below the stack.
Segments == [load : BOOLEAN, offset : Nat, vaddr : Nat, filesz : Nat, memsz : Nat,
             flags : SUBSET {"write", "exec"}]
seg_base(s) == elf_align_down(s.vaddr)
seg_end(s) == elf_align_up(s.vaddr + s.memsz)

ASSUME ElfImagesAssumption ==
    \A f \in Images :
        /\ f.segments \in Seq(Segments)
        /\ \A i, j \in 1 .. Len(f.segments) :
              LET s == f.segments[i]
                  t == f.segments[j]
              IN  i # j /\ s.load /\ t.load => seg_end(s) <= seg_base(t) \/ seg_end(t) <= seg_base(s)
        /\ \A i \in 1 .. Len(f.segments) :
              f.segments[i].load => seg_end(f.segments[i]) <= USER_STACK_BASE

\* process_destroy takes the space with it.
fails ==
    /\ step' = "failed" /\ proc' = "none"
    /\ contents' = [a \in UserSpace |-> UNMAPPED] /\ access' = [p \in Pages |-> {}]
    /\ UNCHANGED <<image, seg, copying>>

\* vmm_space_alloc of whole pages, if there are frames for them.
space_alloc(base, end, flags) ==
    /\ contents' = [a \in UserSpace |-> IF a \in base .. end - 1 THEN STALE ELSE contents[a]]
    /\ access' = [p \in Pages |-> IF p * ELF_PAGE \in base .. end - 1 THEN flags ELSE access[p]]

elf_check == image.size > 0 /\ image.header = "ok" /\ image.ph_end <= image.size

process_create_user ==
    /\ step = "check"
    /\ \/ /\ elf_check
          /\ step' = "segment" /\ proc' = "created"
          /\ UNCHANGED <<image, seg, copying, contents, access>>
       \/ fails

\* The next program header: skipped, refused, or mapped.  The sum is a u64: a
\* part of the file that ends beyond 2^64 is not refused, and what lies there in
\* the kernel's memory is then copied.  The addresses of a segment end below the
\* stack (ElfImagesAssumption), so their sums do not wrap.
ph == image.segments[seg]
va_base == seg_base(ph)
va_end == seg_end(ph)
refused == (ph.offset + ph.filesz) % ELF_WORD > image.size \/ ph.memsz < ph.filesz \/ va_end = va_base

next_segment ==
    /\ step = "segment" /\ seg <= Len(image.segments)
    /\ \/ /\ ~ph.load /\ seg' = seg + 1
          /\ UNCHANGED <<image, step, copying, contents, access, proc>>
       \/ ph.load /\ fails
       \/ /\ ph.load /\ ~refused
          /\ space_alloc(va_base, va_end, {"user", "read"} \cup ph.flags)
          /\ copying' = [src |-> ph.offset, file |-> ph.filesz, va |-> ph.vaddr, mem |-> ph.memsz]
          /\ step' = "copy"
          /\ UNCHANGED <<image, seg, proc>>

\* Fault: what is left of the file is not brought up to date at a page end.
rest_of_file_all(copied) == [src |-> copying.src, file |-> copying.file]
rest_of_file(copied) == [src |-> copying.src + copied, file |-> copying.file - copied]

\* One turn of the loop over pages: what the file has, then zeroes.
copy_page ==
    LET left   == ELF_PAGE - (copying.va % ELF_PAGE)
        chunk  == IF left > copying.mem THEN copying.mem ELSE left
        copied == IF chunk < copying.file THEN chunk ELSE copying.file
        r      == rest_of_file(copied)
    IN  /\ step = "copy" /\ copying.mem > 0
        /\ contents' = [a \in UserSpace |->
               IF a \in copying.va .. copying.va + copied - 1 THEN copying.src + (a - copying.va)
               ELSE IF a \in copying.va + copied .. copying.va + chunk - 1 THEN ZERO
               ELSE contents[a]]
        /\ copying' = [src |-> r.src, file |-> r.file, va |-> copying.va + chunk,
                       mem |-> copying.mem - chunk]
        /\ UNCHANGED <<image, step, seg, access, proc>>

copied_segment ==
    /\ step = "copy" /\ copying.mem = 0
    /\ step' = "segment" /\ seg' = seg + 1
    /\ UNCHANGED <<image, copying, contents, access, proc>>

map_stack ==
    /\ step = "segment" /\ seg > Len(image.segments)
    /\ \/ /\ space_alloc(USER_STACK_BASE, USER_STACK_TOP, {"user", "read", "write"})
          /\ step' = "thread"
          /\ UNCHANGED <<image, seg, copying, proc>>
       \/ fails

thread_create_user ==
    /\ step = "thread"
    /\ \/ /\ step' = "launched" /\ proc' = "scheduled"
          /\ UNCHANGED <<image, seg, copying, contents, access>>
       \/ fails

ElfNext == process_create_user \/ next_segment \/ copy_page \/ copied_segment
           \/ map_stack \/ thread_create_user

ElfSpec == ElfInit /\ [][ElfNext]_elfvars
-----------------------------------------------------------------------------
\* A program that runs has what its file says at every address of every
\* segment, wherever the segment starts in its page and however many pages
\* its file part and its zeroes share; its pages have the segment's access
\* and its stack is there.
LoadedIsImage ==
    proc = "scheduled" =>
    /\ \A i \in DOMAIN image.segments : LET s == image.segments[i] IN
         s.load =>
         /\ \A k \in 0 .. s.memsz - 1 :
              contents[s.vaddr + k] = IF k < s.filesz THEN s.offset + k ELSE ZERO
         /\ access[s.vaddr \div ELF_PAGE] \ {"user", "read"} = s.flags
    /\ \A a \in USER_STACK_BASE .. USER_STACK_TOP - 1 :
         "write" \in access[a \div ELF_PAGE]
=============================================================================
