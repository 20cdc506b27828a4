-------------------------------- MODULE Boot --------------------------------
(***************************************************************************)
(* From _start to the end of kmain: sys_init walks over the tags of the    *)
(* boot information and fills the module list, kmain takes the first       *)
(* module for an archive and looks up a file in it.                        *)
(* Sources: kernel.c, sysinit.c, modules.c, fs/tar.c, strncmp of t_sai.c.  *)
(*                                                                         *)
(* kmain does not look at the result of sys_init.  Where it goes on with a *)
(* pointer that is NULL the model stops: pc = "astray".  tar_init writes   *)
(* through a NULL of kmalloc as well, since nothing calls mm_init; with    *)
(* flat segments and no paging the tar_t is then kept at address 0.        *)
(***************************************************************************)
EXTENDS Integers, Sequences, FiniteSetsExt

CONSTANTS
  MODULES_MAX_LOAD,      (* The number of pointers in __modules: 256.        *)
  BLOCK,                 (* The size of a block of an archive: 512.          *)
  NAME_SIZE,             (* The number of characters of a file name: 100.    *)
  MODE_DIGITS,           (* The octal digits of a mode, behind the name: 7.  *)
  SIZE_DIGITS,           (* The octal digits of a file size: 11.             *)
  WORD,                  (* One more than the largest uint32_t: 2^32.        *)
  MMAP_ENTRIES,          (* Where the entries start in the tag of a memory   *)
                         (* map: 16.                                         *)
  Chars,                 (* The characters of file names.                    *)
  WantedName,            (* The name of the file kmain looks up.             *)
  Boots                  (* What the boot loader may hand over; its first    *)
                         (* module is an archive of a directory (grub.cfg,   *)
                         (* Makefile).                                       *)

NULL == 0                (* No module.                                       *)

NUL == ""                (* The character behind the last one of a string.   *)

NoFile == [size |-> 0, ptr |-> NULL]

(* What an octal digit counts for: "count *= 8" in tar_get_size.           *)
EightTo[n \in Nat] == IF n = 0 THEN 1 ELSE 8 * EightTo[n - 1]

TagType == {"module", "mmap", "text", "rgb", "indexed", "other", "end"}

Name == {s \in Seq(Chars) : Len(s) \in 1 .. NAME_SIZE}

FileSize == {size \in 0 .. EightTo[SIZE_DIGITS] - 1 : size < WORD}

(* A tag has an entry_size if it is a memory map (0 stands for none).      *)
TagInfo == [type : TagType, size : Nat \ {0}, entry_size : Nat]

BootInfo ==
  [magic : BOOLEAN, aligned : BOOLEAN, tags : Seq(TagInfo),
   archive : Seq([name : Name, size : FileSize])]

(* The last tag is the end of the list, the entries of a memory map take   *)
(* room, as multiboot says (the loop over them would never end with a step *)
(* of 0), and the first member of an archive is a directory.               *)
(* All of it lies in memory, below 4 GB: the addresses and offsets of the  *)
(* walks do not wrap around.  Types of tags and of frame buffers index the *)
(* tables __mb2_htags_str and __mb2_htag_fb_str without a test, for a LOG  *)
(* alone: the boot loader uses those the tables have.                      *)
ASSUME BootAssumption ==
  /\ {MODULES_MAX_LOAD, BLOCK, NAME_SIZE, MODE_DIGITS, SIZE_DIGITS, WORD} \subseteq Nat \ {0}
  /\ MMAP_ENTRIES \in Nat
  /\ NAME_SIZE + MODE_DIGITS < BLOCK
  /\ NUL \notin Chars
  /\ WantedName \in Name /\ Len(WantedName) < NAME_SIZE
  /\ Boots \subseteq BootInfo
  /\ \A b \in Boots : b.tags # <<>> /\ b.tags[Len(b.tags)].type = "end"
  /\ \A b \in Boots : \A n \in DOMAIN b.tags :
        b.tags[n].type = "mmap" => b.tags[n].entry_size > 0
  /\ \A b \in Boots : b.archive # <<>> /\ b.archive[1].size = 0

VARIABLES
  boot,             (* The magic number, the tags, the archive: see Boots.   *)
  pc,               (* Where the processor is.                               *)
  tag,              (* The address of a tag, from the start of the boot      *)
                    (* information.                                          *)
  mmap,             (* The address of an entry of a memory map.              *)
  __modules,        (* The addresses of the tags of the modules.             *)
  __modules_count,
  drivers,          (* The display drivers that have been initialised.       *)
  disp_drv,         (* sys_config.disp_drv; 0, as in the beginning, stands   *)
                    (* for indexed colours.                                  *)
  offset,           (* How far tar_get_file has come in the archive.         *)
  file,             (* What tar_get_file returns.                            *)
  printed           (* How many characters of it kmain logs.                 *)

vars ==
  <<boot, pc, tag, mmap, __modules, __modules_count, drivers, disp_drv, offset, file, printed>>

-----------------------------------------------------------------------------
(* What the boot loader and the program tar lay out in memory.  A tag has  *)
(* a type and a size and starts at the first border of 8 bytes behind the  *)
(* tag before.  A member of an archive has a name and a size; its header   *)
(* starts at the first border of a block behind the member before, and a   *)
(* block of zeroes follows the last member.                                *)

TagBorder == 8

Border(n, unit) == Min({b \in n .. n + unit - 1 : b % unit = 0})

TagAddress ==
  LET address[n \in 1 .. Len(boot.tags)] ==
        IF n = 1 THEN TagBorder
        ELSE Border(address[n - 1] + boot.tags[n - 1].size, TagBorder)
  IN  address

HeaderOffset ==
  LET start[n \in 1 .. Len(boot.archive) + 1] ==
        IF n = 1 THEN 0
        ELSE Border(start[n - 1] + BLOCK + boot.archive[n - 1].size, BLOCK)
  IN  start

(* How many characters a header starts with: a name of the full length     *)
(* goes on with the mode of the member.                                    *)
TextEnd(name) == Len(name) + (IF Len(name) = NAME_SIZE THEN MODE_DIGITS ELSE 0)

(* A NUL in memory, as seen from the data of a member: behind the first    *)
(* text of a header, behind the data of a member up to the next header,    *)
(* and in the zeroes at the end.                                           *)
NulAt(o) ==
  \/ \E n \in DOMAIN boot.archive :
       \/ o - HeaderOffset[n] \in TextEnd(boot.archive[n].name) .. BLOCK - 1
       \/ o \in HeaderOffset[n] + BLOCK + boot.archive[n].size .. HeaderOffset[n + 1] - 1
  \/ o >= HeaderOffset[Len(boot.archive) + 1]

(* The digits of the size in a header, the most significant one first.     *)
SizeDigits(size) ==
  [d \in 1 .. SIZE_DIGITS |-> (size \div EightTo[SIZE_DIGITS - d]) % 8]

TheTag == boot.tags[CHOOSE n \in DOMAIN TagAddress : TagAddress[n] = tag]

OnTag == tag \in {TagAddress[n] : n \in DOMAIN TagAddress}

AtHeader(n) == n \in DOMAIN HeaderOffset /\ HeaderOffset[n] = offset

-----------------------------------------------------------------------------
(* sys_init.                                                               *)

Booted == boot.magic /\ boot.aligned

(* The size of a tag with the bytes up to the next border, and the same    *)
(* without the mask.                                                       *)
UnmaskedSize(size) == size + 7

PaddedSize(size) == ((size + 7) \div 8) * 8

Init ==
  /\ boot \in Boots
  /\ pc = "kmain"
  /\ tag = NULL
  /\ mmap = NULL
  /\ __modules = [m \in 0 .. MODULES_MAX_LOAD - 1 |-> NULL]
  /\ __modules_count = 0
  /\ drivers = {}
  /\ disp_drv = "indexed"
  /\ offset = 0
  /\ file = NoFile
  /\ printed = 0

(* The checks at the beginning of sys_init; after -1 kmain goes on as well. *)
sys_init ==
  /\ pc = "kmain"
  /\ IF Booted
     THEN pc' = "tags" /\ tag' = TagBorder
     ELSE pc' = "modules" /\ UNCHANGED tag
  /\ UNCHANGED <<boot, mmap, __modules, __modules_count, drivers, disp_drv, offset, file, printed>>

(* The test of module_add_to_list taken seriously: the last place is lost. *)
AddWhenRoom(t) ==
  IF __modules_count + 1 >= MODULES_MAX_LOAD THEN UNCHANGED <<__modules, __modules_count>>
  ELSE /\ __modules' = [__modules EXCEPT ![__modules_count] = t]
       /\ __modules_count' = __modules_count + 1

(* A list that grows past its end. *)
AddBeyond(t) ==
  /\ __modules' = [m \in DOMAIN __modules \union {__modules_count} |->
                     IF m = __modules_count THEN t ELSE __modules[m]]
  /\ __modules_count' = __modules_count + 1

(* The test whether there is room has no consequence.  Behind __modules    *)
(* the compiler puts __modules_count itself, or another variable.          *)
module_add_to_list(t) ==
  IF __modules_count < MODULES_MAX_LOAD
  THEN /\ __modules' = [__modules EXCEPT ![__modules_count] = t]
       /\ __modules_count' = __modules_count + 1
  ELSE /\ UNCHANGED __modules
       /\ __modules_count' \in {__modules_count + 1, t + 1}

NextTag ==
  /\ OnTag /\ TheTag.type # "end"
  /\ tag' = tag + PaddedSize(TheTag.size)
  /\ pc' = "tags"
  /\ UNCHANGED <<boot, mmap, offset, file, printed>>

ModuleTag ==
  /\ pc = "tags" /\ NextTag
  /\ TheTag.type = "module"
  /\ module_add_to_list(tag)
  /\ UNCHANGED <<drivers, disp_drv>>

(* tvga_init for text, vbe_init for RGB, nothing for indexed colours.      *)
FramebufferTag ==
  /\ pc = "tags" /\ NextTag
  /\ TheTag.type \in {"text", "rgb", "indexed"}
  /\ drivers' = drivers \union ({TheTag.type} \ {"indexed"})
  /\ disp_drv' = TheTag.type
  /\ UNCHANGED <<__modules, __modules_count>>

(* The memory map is logged entry by entry, up to the end of its tag; the  *)
(* locals free_ptr and free_sz are set, but nobody reads them.             *)
MmapTag ==
  /\ pc = "tags" /\ OnTag /\ TheTag.type = "mmap"
  /\ pc' = "entries"
  /\ mmap' = tag + MMAP_ENTRIES
  /\ UNCHANGED <<boot, tag, __modules, __modules_count, drivers, disp_drv, offset, file, printed>>

MmapEntry ==
  /\ pc = "entries" /\ mmap < tag + TheTag.size
  /\ mmap' = mmap + TheTag.entry_size
  /\ UNCHANGED <<boot, pc, tag, __modules, __modules_count, drivers, disp_drv, offset, file, printed>>

MmapEnd ==
  /\ pc = "entries" /\ mmap >= tag + TheTag.size
  /\ NextTag
  /\ UNCHANGED <<__modules, __modules_count, drivers, disp_drv>>

(* Tags that are only logged. *)
OtherTag ==
  /\ pc = "tags" /\ NextTag
  /\ TheTag.type = "other"
  /\ UNCHANGED <<__modules, __modules_count, drivers, disp_drv>>

EndTag ==
  /\ pc = "tags" /\ OnTag /\ TheTag.type = "end"
  /\ pc' = "modules"
  /\ tag' = tag + PaddedSize(TheTag.size)
  /\ UNCHANGED <<boot, mmap, __modules, __modules_count, drivers, disp_drv, offset, file, printed>>

-----------------------------------------------------------------------------
(* kmain and the archive.                                                  *)

(* The last module is out of reach. *)
GetButLast(idx) == IF idx + 1 >= __modules_count THEN NULL ELSE __modules[idx]

module_get(idx) == IF idx >= __modules_count THEN NULL ELSE __modules[idx]

(* tar_init, and the first statement of tar_get_file: the header of the    *)
(* first member, the directory itself, is skipped.                         *)
tar_init ==
  /\ pc = "modules"
  /\ IF module_get(0) = NULL
     THEN pc' = "astray" /\ UNCHANGED offset
     ELSE pc' = "search" /\ offset' = BLOCK
  /\ UNCHANGED <<boot, tag, mmap, __modules, __modules_count, drivers, disp_drv, file, printed>>

(* A sum of uint32_t; the code adds the last digit first, which makes no   *)
(* difference.                                                             *)
tar_get_size(digits) ==
  LET size[d \in 0 .. SIZE_DIGITS] ==
        IF d = 0 THEN 0
        ELSE (size[d - 1] + digits[d] * EightTo[SIZE_DIGITS - d]) % WORD
  IN  size[SIZE_DIGITS]

Character(s, k) == IF k <= Len(s) THEN s[k] ELSE NUL

(* strncmp returns 0; strcmp, which ends with the shorter string, does too. *)
strcmp(s1, s2, n) == \A k \in 1 .. Min({n, Len(s1), Len(s2)}) : s1[k] = s2[k]

strncmp(s1, s2, n) == \A k \in 1 .. n : Character(s1, k) = Character(s2, k)

(* The bytes of a file alone. *)
DataOnly(size) == (size \div BLOCK) * BLOCK + (IF size % BLOCK # 0 THEN BLOCK ELSE 0)

(* Header, whole blocks, and a block for the rest. *)
MemberSize(size) ==
  (size \div BLOCK + 1) * BLOCK + (IF size % BLOCK # 0 THEN BLOCK ELSE 0)

(* The data of a member, given its header; and the header for the data.    *)
HeaderAsFile(header, size) == [size |-> size, ptr |-> header]

FileBehind(header, size) == [size |-> size, ptr |-> header + BLOCK]

tar_get_file ==
  /\ pc = "search"
  /\ \E n \in 1 .. Len(boot.archive) :
       LET size == tar_get_size(SizeDigits(boot.archive[n].size))
       IN  /\ AtHeader(n)
           /\ IF strncmp(boot.archive[n].name, WantedName, NAME_SIZE)
              THEN /\ file' = FileBehind(offset, size)
                   /\ pc' = "returned"
                   /\ UNCHANGED offset
              ELSE /\ offset' = offset + MemberSize(size)
                   /\ UNCHANGED <<pc, file>>
  /\ UNCHANGED <<boot, tag, mmap, __modules, __modules_count, drivers, disp_drv, printed>>

(* The name of the header is empty. *)
EndOfArchive ==
  /\ pc = "search" /\ AtHeader(Len(boot.archive) + 1)
  /\ pc' = "returned"
  /\ UNCHANGED <<boot, tag, mmap, __modules, __modules_count, drivers, disp_drv, offset, file, printed>>

(* The last LOG of kmain puts characters up to the first NUL (a file is a  *)
(* text, without one).                                                     *)
StringLength(ptr) ==
  Min({o \in ptr .. HeaderOffset[Len(boot.archive) + 1] : NulAt(o)}) - ptr

LogFile ==
  /\ pc = "returned"
  /\ IF file.ptr = NULL
     THEN pc' = "astray" /\ UNCHANGED printed
     ELSE pc' = "done" /\ printed' = StringLength(file.ptr)
  /\ UNCHANGED <<boot, tag, mmap, __modules, __modules_count, drivers, disp_drv, offset, file>>

Next ==
  \/ sys_init \/ ModuleTag \/ FramebufferTag \/ OtherTag \/ EndTag
  \/ MmapTag \/ MmapEntry \/ MmapEnd
  \/ tar_init \/ tar_get_file \/ EndOfArchive \/ LogFile

(* The kernel runs with interrupts masked and nothing else on the          *)
(* processor: it takes its next step.                                      *)
Spec == Init /\ [][Next]_vars /\ WF_vars(Next)

-----------------------------------------------------------------------------
(* Properties.                                                             *)

TypeOK ==
  /\ boot \in Boots
  /\ pc \in {"kmain", "tags", "entries", "modules", "search", "returned", "done", "astray"}
  /\ tag \in Nat
  /\ mmap \in Nat
  /\ __modules \in [0 .. MODULES_MAX_LOAD - 1 -> Nat]
  /\ __modules_count \in Nat
  /\ drivers \subseteq {"text", "rgb"}
  /\ disp_drv \in {"text", "rgb", "indexed"}
  /\ offset \in Nat
  /\ file \in [size : Nat, ptr : Nat]
  /\ printed \in Nat

(* The steps of sys_init from tag to tag, and those of tar_get_file from   *)
(* member to member, never land inside a tag or in the data of a file,     *)
(* which may well look like a header.                                      *)
WalksOnHeaders ==
  /\ pc \in {"tags", "entries"} => OnTag
  /\ pc = "search" => \E n \in 2 .. Len(boot.archive) + 1 : AtHeader(n)

(* The module list holds the modules the walk has passed, in the order of  *)
(* the boot loader, all of them as long as there is room: kmain relies on  *)
(* the archive being the first.                                            *)
ModulesPassed ==
  {n \in DOMAIN boot.tags : boot.tags[n].type = "module" /\ TagAddress[n] < tag}

Before(n) == Cardinality({m \in ModulesPassed : m < n})

ModulesInOrder ==
  /\ \A n \in ModulesPassed : Before(n) < MODULES_MAX_LOAD => __modules[Before(n)] = TagAddress[n]
  /\ Cardinality(ModulesPassed) <= MODULES_MAX_LOAD => __modules_count = Cardinality(ModulesPassed)

(* tar_get_file returns the data of the first member behind the directory  *)
(* that has the wanted name, and NULL if there is none.                    *)
Matches == {n \in 2 .. Len(boot.archive) : boot.archive[n].name = WantedName}

FindsTheFile ==
  pc \in {"returned", "done"} =>
    file = IF Matches = {} THEN NoFile
           ELSE LET n == Min(Matches)
                IN  [size |-> boot.archive[n].size, ptr |-> HeaderOffset[n] + BLOCK]

(* What kmain logs is the file from its first character to its last, and   *)
(* no more: the archive fills the last block with NULs.  Only if there is  *)
(* nothing to fill does the name of the next member follow, and its mode   *)
(* if the name has the full length.                                        *)
PrintsTheFile ==
  pc = "done" =>
    LET n == Min(Matches)
        full == boot.archive[n].size % BLOCK = 0 /\ n < Len(boot.archive)
    IN  printed = boot.archive[n].size + (IF full THEN TextEnd(boot.archive[n + 1].name) ELSE 0)

(* The file that the boot asks for is the one that is shown.               *)
ShowsTheFile == FindsTheFile /\ PrintsTheFile

(* The boot comes to an end, whatever the sizes of the tags and of the     *)
(* files are: no walk goes on for ever, and kmain goes on with a NULL      *)
(* pointer only if the boot loader is none of the right kind, or has       *)
(* loaded no module, or there is no such file.                             *)
NothingToFind ==
  ~ Booted \/ Matches = {} \/ \A n \in DOMAIN boot.tags : boot.tags[n].type # "module"

BootEnds == <>(pc = "done" \/ (pc = "astray" /\ NothingToFind))

=============================================================================
