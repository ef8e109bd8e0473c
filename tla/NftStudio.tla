------------------------------ MODULE NftStudio ------------------------------
(***************************************************************************)
(* The gallery of artwork drafts, kept in the browser's storage.  Every    *)
(* open tab has read the storage once, when it was loaded, and writes it   *)
(* whole: what another tab has saved since is overwritten.  A draft is     *)
(* modelled by the one field the gallery itself sets: whether it is        *)
(* featured.                                                               *)
(***************************************************************************)
EXTENDS Naturals, Sequences, SequencesExt

CONSTANTS
  Tabs,
  Limit,      \* drafts of a gallery: 100
  Unreadable  \* a storage that does not hold a gallery

ASSUME StudioAssumption == Limit \in Nat \ {0} /\ Unreadable \notin Seq(BOOLEAN)

VARIABLES
  storage,   \* the drafts in localStorage; Unreadable if they are not a gallery
  readable,  \* storageReadable of each tab
  records,   \* what each tab shows
  importing  \* tabs that read a backup the user chose

studioVars == <<storage, readable, records, importing>>

Draft == FALSE
Featured(gallery) == {i \in DOMAIN gallery : gallery[i] = TRUE}

(* What the code loading a tab accepts.                                    *)
Valid(gallery) == gallery # Unreadable /\ Len(gallery) <= Limit

Opened(tab) ==
  /\ readable' = [readable EXCEPT ![tab] = Valid(storage)]
  /\ records' = [records EXCEPT ![tab] = IF Valid(storage) THEN storage ELSE <<>>]

StudioInit ==
  /\ storage \in {<<>>, Unreadable}
  /\ readable = [tab \in Tabs |-> Valid(storage)]
  /\ records = [tab \in Tabs |-> <<>>]
  /\ importing = {}

-----------------------------------------------------------------------------
(* The page is loaded again; a backup that was being read is forgotten.    *)
Reload(tab) ==
  /\ Opened(tab)
  /\ importing' = importing \ {tab}
  /\ UNCHANGED storage

(* save: refused if the tab could not read the storage, or by a full one.  *)
save(tab, next) ==
  /\ readable[tab]
  /\ storage' = next
  /\ records' = [records EXCEPT ![tab] = next]
  /\ UNCHANGED readable

SaveDraft(tab) ==
  /\ Len(records[tab]) < Limit
  /\ save(tab, Append(records[tab], Draft))
  /\ UNCHANGED importing

(* Mutant of Feature: the drafts featured before keep their place.         *)
FeatureToo(tab, i) ==
  /\ save(tab, [records[tab] EXCEPT ![i] = ~@])
  /\ UNCHANGED importing

Feature(tab, i) ==
  /\ save(tab, [n \in DOMAIN records[tab] |-> n = i /\ ~records[tab][n]])
  /\ UNCHANGED importing

RemoveDraft(tab, i) ==
  /\ save(tab, RemoveAt(records[tab], i))
  /\ UNCHANGED importing

ChooseBackup(tab) ==
  /\ importing' = importing \cup {tab}
  /\ UNCHANGED <<storage, readable, records>>

(* Mutant of Fits: the gallery as it is now is left out of the account.    *)
FitsAlone(tab, n) == n <= Limit

Fits(tab, n) == n + Len(records[tab]) <= Limit

(* The backup has been read: it joins what the tab shows by now, or is     *)
(* refused.                                                                *)
Import(tab, n) ==
  /\ tab \in importing /\ importing' \in {importing, importing \ {tab}}
  /\ \/ Fits(tab, n) /\ save(tab, records[tab] \o [i \in 1..n |-> Draft])
     \/ UNCHANGED <<storage, readable, records>>

StudioNext ==
  \E tab \in Tabs :
    \/ Reload(tab) \/ SaveDraft(tab) \/ ChooseBackup(tab)
    \/ \E i \in DOMAIN records[tab] : Feature(tab, i) \/ RemoveDraft(tab, i)
    \/ \E n \in 0..Limit : Import(tab, n)

StudioSpec == StudioInit /\ [][StudioNext]_studioVars

-----------------------------------------------------------------------------
(* However tabs overwrite one another and whenever a backup has been read, *)
(* the storage is a gallery that the next tab can open: within the limit,  *)
(* with one draft featured at most.  What could not be read stays as it    *)
(* was, and no tab has taken it for a gallery.                             *)
GalleryOpens ==
  \/ Valid(storage) /\ \A i, j \in Featured(storage) : i = j
  \/ storage = Unreadable /\ \A tab \in Tabs : ~readable[tab]
=============================================================================
