--------------------------------- MODULE Boot ---------------------------------
(***************************************************************************)
(* The start of the device over its file system: deferredBoot and          *)
(* ARS_provision of src/Core/main.ino, loadScheduleFile of ARSSCHED.cpp,   *)
(* and the host's reboot_all and format, which go some of the same way.    *)
(* The demos and their SCHEDULE are laid down by a fixed list of file      *)
(* operations, the return codes of which nobody looks at; the power may    *)
(* fail in each of them.                                                   *)
(***************************************************************************)
EXTENDS ARSFS

CONSTANTS
  SCHEDULE,    \* a name
  Demo,        \* the names of the demos, in order
  Factory,     \* what the firmware writes into them and into SCHEDULE
  Uploads      \* what the host writes into files

\* What the firmware writes into SCHEDULE is not empty.
ASSUME FactoryAssumption ==
  LET names == {Demo[k] : k \in DOMAIN Demo} \cup {SCHEDULE}
  IN  /\ Demo \in Seq(Name) /\ SCHEDULE \in Name
      /\ Factory \in [names -> Data] /\ Uploads \subseteq Data
      /\ SizeOf[Factory[SCHEDULE]] > 0
ASSUME NamesAssumption == NONE \notin Name

\* The pages of the first k demos.
DemoPages[k \in 0 .. Len(Demo)] ==
  IF k = 0 THEN 0 ELSE DemoPages[k - 1] + pgCount(SizeOf[Factory[Demo[k]]])
\* The files of the factory have names of their own and fit into the directory and on
\* the disk: 3 files of one page each, for 32 entries and 128 pages.
ASSUME FactoryFits ==
  /\ \A j, k \in DOMAIN Demo : Demo[j] # SCHEDULE /\ (j # k => Demo[j] # Demo[k])
  /\ Len(Demo) < FCB_CNT
  /\ DemoPages[Len(Demo)] + pgCount(SizeOf[Factory[SCHEDULE]]) <= BMP

VARIABLES
  pc,      \* where deferredBoot is
  left,    \* what ARS_provision has still to do
  calm,    \* starts since the host or a power failure last got in the way
  harm     \* see DemosBeforeSchedule
bvars == <<vars, pc, left, calm, harm>>

Step(f, n) == [does |-> f, name |-> n]
Laid(n)    == <<Step("createFile", n), Step("writeFile", n)>>

Demos ==
  LET laid[k \in 0 .. Len(Demo)] == IF k = 0 THEN <<>> ELSE laid[k - 1] \o Laid(Demo[k])
  IN  laid[Len(Demo)]

\* Mutant: the contents of SCHEDULE first.
Script_scheduleFirst ==
  <<Step("createFileAt", SCHEDULE), Step("writeFile", SCHEDULE)>> \o Demos

\* ARS_provision: the entry of SCHEDULE first, its contents last.
Script == <<Step("createFileAt", SCHEDULE)>> \o Demos \o <<Step("writeFile", SCHEDULE)>>

\* Nothing there, of no bytes, or a first page that has been erased.
Probe == readFile(meta, flash.page, SCHEDULE)

\* Mutant: a schedule that has bytes is good.
IsBlank_sizeOnly(file) == file.pages = <<>>

IsBlank(file) == file.pages = <<>> \/ file.pages[1] = ERASED

Has(n) == Hits(meta, n) # {}
Possible(s) ==
  CASE s.does = "createFile"   -> ~Has(s.name) /\ FreeSlots(meta) # {}
    [] s.does = "createFileAt" -> 0 \in FreeSlots(meta)
    [] s.does = "writeFile"    -> Has(s.name)
Performs(s) ==
  CASE s.does = "createFile"   -> createFile(s.name)
    [] s.does = "createFileAt" -> createFileAt(s.name, 0)
    [] s.does = "writeFile"    -> writeFile(s.name, Factory[s.name])

-----------------------------------------------------------------------------
mount == pc = "off" /\ arsfs_init /\ pc' = "probe" /\ UNCHANGED <<left, calm, harm>>

provision ==
  /\ pc = "probe" /\ Ready
  /\ IF IsBlank(Probe) THEN pc' = "lay" /\ left' = Script
                       ELSE pc' = "load" /\ UNCHANGED left
  /\ UNCHANGED <<vars, calm, harm>>

layDown ==
  /\ pc = "lay" /\ Ready
  /\ IF Possible(Head(left)) THEN Performs(Head(left)) ELSE UNCHANGED vars
  /\ left' = Tail(left) /\ pc' = IF Tail(left) = <<>> THEN "load" ELSE "lay"
  /\ UNCHANGED <<calm, harm>>

\* A SCHEDULE elsewhere than in entry 0 is moved there if the entry is free, and
\* one that does not exist is created, there or anywhere.
loadScheduleFile ==
  IF arsfs_find(meta, SCHEDULE) # 0 /\ 0 \in FreeSlots(meta) THEN createFileAt(SCHEDULE, 0)
  ELSE IF Possible(Step("createFile", SCHEDULE)) THEN createFile(SCHEDULE)
  ELSE UNCHANGED vars

arssched_load ==
  /\ pc = "load" /\ Ready /\ loadScheduleFile
  /\ pc' = "run" /\ calm' = (IF calm < 2 THEN calm + 1 ELSE 2)
  /\ UNCHANGED <<left, harm>>

\* The host's update, del, reboot_all, and format, which ends as a start does.
Ours == DOMAIN Factory
Host ==
  /\ pc = "run" /\ Ready
  /\ \/ \E n \in Name :
          /\ \/ createFile(n)
             \/ \E d \in Uploads : writeFile(n, d)
          /\ harm' = (harm \/ n \in Ours) /\ pc' = pc
     \/ /\ \E n \in Name : delFile(n)
        /\ harm' = TRUE /\ pc' = pc
     \/ loadScheduleFile /\ UNCHANGED harm /\ pc' = pc
     \/ format /\ UNCHANGED harm /\ pc' = "probe"
  /\ calm' = 0 /\ UNCHANGED left

Device == (Erase \/ Program) /\ UNCHANGED <<pc, left, calm, harm>>

\* The power may go at rest, which disturbs nothing.
Outage ==
  /\ PowerLoss /\ pc' = "off" /\ left' = <<>>
  /\ calm' = IF pc = "run" /\ todo = <<>> THEN calm ELSE 0
  /\ harm' = (harm \/ (secBuf # NONE /\ (pc = "run" \/ flash' # flash)))

BootInit == Init /\ pc = "off" /\ left = <<>> /\ calm = 0 /\ harm = FALSE
BootNext == mount \/ provision \/ layDown \/ arssched_load \/ Host \/ Device \/ Outage
BootSpec == BootInit /\ [][BootNext]_bvars

-----------------------------------------------------------------------------
\* Whatever the host left behind and wherever the power failed, a schedule that is
\* missing, empty or erased is back after two quiet starts, unless there is no entry
\* or no page for it.  One start is not enough: while another file has entry 0,
\* SCHEDULE is created too late to be written.
Unreadable(file) == \A k \in DOMAIN file.pages : file.pages[k] = ERASED
SelfHeals ==
  pc = "run" /\ todo = <<>> /\ calm = 2 /\ Unreadable(Probe)
    => \/ ~Has(SCHEDULE) /\ FreeSlots(meta) = {}
       \/ Cardinality(FreePages(meta)) < pgCount(SizeOf[Factory[SCHEDULE]])

\* A power failure while the demos are laid down is made good by the next start: the
\* factory's SCHEDULE is on the flash only when all the demos it lists are.  harm is
\* what may come between: the host writes these files or deletes any, or the power
\* fails over an erased sector in the host's time or over one half programmed.
DemosBeforeSchedule ==
  ~harm /\ OnFlash[SCHEDULE] = File(Factory[SCHEDULE])
    => \A k \in DOMAIN Demo : OnFlash[Demo[k]] = File(Factory[Demo[k]])
=============================================================================
