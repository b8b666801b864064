------------------------------ MODULE BackOffice ------------------------------
(***************************************************************************)
(* What staff works with beside the bookings themselves: the partners and  *)
(* the imports of partners, the tariffs of the EPDA, the cargo on the      *)
(* documents that are printed, and the files in the object store.  They    *)
(* share no state, so a behaviour exercises one of them at a time: office  *)
(* names it and the others rest.                                           *)
(***************************************************************************)
EXTENDS BookingPartners, ImportJobs, EpdaParameters, CargoPages, CargoGrid,
        ObjectStorage

VARIABLE office  \* the part of the back office a behaviour exercises

officeVars == <<office, partnerVars, jobVars, epdaVars, pageVars, gridVars,
                storageVars>>

OfficeInit ==
  /\ office \in {"partners", "imports", "tariffs", "pages", "grid", "storage"}
  /\ PartnersInit /\ JobsInit /\ EpdaInit /\ PagesInit /\ GridInit
  /\ StorageInit
  /\ office # "tariffs" =>
       portArea = [p \in EpdaPorts |-> CHOOSE a \in EpdaAreas : TRUE]
  /\ office # "pages" =>
       /\ cargo = <<>> /\ band = CHOOSE b \in Bands : TRUE
       /\ marks = CHOOSE r \in Rooms : TRUE
  /\ office # "grid" => rows = BlRows(FALSE, 0)
  /\ office # "storage" => bucket = CHOOSE start \in StartBuckets : TRUE

PrintPages ==
  /\ office = "pages" /\ PagesNext
  /\ UNCHANGED <<office, partnerVars, jobVars, epdaVars, gridVars, storageVars>>

StoreFiles ==
  /\ office = "storage" /\ \E s \in StorageSlots : StorageStep(s)
  /\ UNCHANGED <<office, partnerVars, jobVars, epdaVars, pageVars, gridVars>>

OfficeNext ==
  \/ /\ office = "partners" /\ PartnersNext
     /\ UNCHANGED <<office, jobVars, epdaVars, pageVars, gridVars, storageVars>>
  \/ /\ office = "imports" /\ JobsNext
     /\ UNCHANGED <<office, partnerVars, epdaVars, pageVars, gridVars, storageVars>>
  \/ /\ office = "tariffs" /\ EpdaNext
     /\ UNCHANGED <<office, partnerVars, jobVars, pageVars, gridVars, storageVars>>
  \/ PrintPages
  \/ /\ office = "grid" /\ GridNext
     /\ UNCHANGED <<office, partnerVars, jobVars, epdaVars, pageVars, storageVars>>
  \/ StoreFiles
  \/ /\ office = "storage"
     /\ \E s \in StorageSlots : Break(s) \/ StorageStart(s)
     /\ UNCHANGED <<office, partnerVars, jobVars, epdaVars, pageVars, gridVars>>

\* A behaviour prints or stores, so one condition is fair to both.
OfficeSpec ==
  /\ OfficeInit /\ [][OfficeNext]_officeVars
  /\ JobsFairness /\ WF_officeVars(PrintPages \/ StoreFiles)

\* Work comes to an end.  An upload is refused, or its job completes or fails,
\* and its file is removed, although jobs hold one gate while they wait at
\* another.  Rendering ends with the attention band printed, whichever rows fit
\* on which page and although a page that does not work out is redone.  Walking
\* folders ends, although their pages are listed while the walk itself, and
\* others, add and remove keys.
LoopsEnd ==
  /\ ImportsEnd
  /\ (office \in {"pages", "storage"}) ~>
       IF office = "pages" THEN phase = "done"
       ELSE \A s \in StorageSlots : task[s].pc = "idle"
=============================================================================
