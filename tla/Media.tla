-------------------------------- MODULE Media --------------------------------
(***************************************************************************)
(* media-service: one asset from its registration to its deletion.  The     *)
(* owner registers it (and may try again), a scanner and an operator change *)
(* its status; every change loads the row, decides, and commits.            *)
(*                                                                         *)
(* A scan begins when its start takes the asset to scanning, and has an      *)
(* outcome.  The scanner reports it when it likes, and again if it is not    *)
(* sure that it was heard; a report does not say which scan it is of.        *)
(***************************************************************************)
EXTENDS Integers, Sequences, FiniteSets

CONSTANTS
  Registrars,       \* attempts to register the asset, all with one key
  Changers,         \* status changes in service at once
  MAX_SCANS,        \* how many scans are begun
  MediaSettings     \* [serial, once]: changes of one asset are made one at a time;
                    \* no result that was recorded is reported again

VARIABLES
  mediaSetting,
  assets,           \* media_assets committed under the key: who registered them
  registering,      \* per attempt: free, waiting, inserted, or the asset it was told of
  assetStatus,      \* of the asset
  change,           \* per change: the operation, the scan it reports, the status it loaded
  scans,            \* the scans begun: what each finds, clean or infected
  recorded          \* scans whose result was taken

scanning == <<scans, recorded>>
mediaVars == <<mediaSetting, assets, registering, assetStatus, change, scanning>>

MediaStatus == {"absent", "quarantined", "scanning", "clean", "infected", "deleted"}
TERMINAL == {"infected", "deleted"}
Verdicts == {"clean", "infected"}
ScanOps == {"start_scan", "record_scan_result", "delete_media"}
NoChange == [op |-> "none", scan |-> 0, loaded |-> "absent"]
Told(g) == [step |-> "told", asset |-> g]
At(step) == [step |-> step, asset |-> 0]

MediaInit ==
  /\ mediaSetting \in MediaSettings
  /\ assets = {} /\ assetStatus = "absent" /\ scans = <<>> /\ recorded = {}
  /\ registering = [g \in Registrars |-> At("free")]
  /\ change = [c \in Changers |-> NoChange]

-----------------------------------------------------------------------------
(* register_media *)

\* INSERT .. ON CONFLICT DO NOTHING waits for an open transaction with the
\* same key; one that finds the key committed answers with its asset.
_claim_idempotency(g) ==
  /\ registering[g].step = "free"
  /\ \A o \in Registrars : registering[o].step # "inserted"
  /\ registering' = [registering EXCEPT ![g] = IF assets = {} THEN At("inserted") ELSE Told(CHOOSE a \in assets : TRUE)]
  /\ UNCHANGED <<mediaSetting, assets, assetStatus, change, scanning>>

\* plan_registration_for accepts the request: the asset, its event, and the
\* key with its result, in one commit.
register_media(g) ==
  /\ registering[g].step = "inserted"
  /\ assets' = assets \cup {g} /\ assetStatus' = "quarantined"
  /\ registering' = [registering EXCEPT ![g] = Told(g)]
  /\ UNCHANGED <<mediaSetting, change, scanning>>

\* It is refused (422), or the commit fails (500): the key is given back.
RegistrationFails(g) ==
  /\ registering[g].step = "inserted"
  /\ registering' = [registering EXCEPT ![g] = At("free")]
  /\ UNCHANGED <<mediaSetting, assets, assetStatus, change, scanning>>

-----------------------------------------------------------------------------
(* start_scan, record_scan_result, delete_media *)

\* Fault: an infected asset is scanned again.
RescansInfected(current) == IF current = "deleted" THEN "refused" ELSE "scanning"

\* Where an operation takes the status; "refused" is a 409.
plan_scan_start(current) == IF current \in TERMINAL THEN "refused" ELSE "scanning"

plan_scan_result(current, infected) ==
  CASE current = "infected" /\ infected -> "infected"
    [] current = "scanning" -> IF infected THEN "infected" ELSE "clean"
    [] OTHER -> "refused"

plan_delete(current) == "deleted"

Planned(op, k, current) ==
  CASE op = "start_scan" -> plan_scan_start(current)
    [] op = "record_scan_result" -> plan_scan_result(current, scans[k] = "infected")
    [] op = "delete_media" -> plan_delete(current)

\* The scan that a call is about: of a result, any that was begun, however late
\* and however often.
Subjects(op) ==
  CASE op = "start_scan" -> IF Len(scans) < MAX_SCANS THEN {0} ELSE {}
    [] op = "record_scan_result" -> {k \in 1 .. Len(scans) : mediaSetting.once => k \notin recorded}
    [] op = "delete_media" -> {0}

\* _load and the decision; a refused one ends here.
_load(c, op) ==
  /\ assetStatus # "absent" /\ change[c].op = "none"
  /\ mediaSetting.serial => \A o \in Changers : change[o].op = "none"
  /\ \E k \in Subjects(op) :
       /\ Planned(op, k, assetStatus) # "refused"
       /\ change' = [change EXCEPT ![c] = [op |-> op, scan |-> k, loaded |-> assetStatus]]
  /\ UNCHANGED <<mediaSetting, assets, registering, assetStatus, scanning>>

\* _apply: the column is written if it was changed, whatever it is by now.
ApplyChange(c) ==
  /\ change[c].op # "none"
  /\ LET old == change[c].loaded
         new == Planned(change[c].op, change[c].scan, old)
     IN  IF new = old THEN UNCHANGED <<assetStatus, scanning>>
         ELSE /\ assetStatus' = new
              /\ IF new = "scanning" THEN \E v \in Verdicts : scans' = Append(scans, v)
                                     ELSE UNCHANGED scans
              /\ recorded' = recorded \cup ({change[c].scan} \ {0})
  /\ change' = [change EXCEPT ![c] = NoChange]
  /\ UNCHANGED <<mediaSetting, assets, registering>>

ChangeFails(c) ==
  /\ change[c].op # "none"
  /\ change' = [change EXCEPT ![c] = NoChange]
  /\ UNCHANGED <<mediaSetting, assets, registering, assetStatus, scanning>>

Registers(g) == _claim_idempotency(g) \/ register_media(g) \/ RegistrationFails(g)
Changes(c) == ApplyChange(c) \/ ChangeFails(c) \/ \E op \in ScanOps : _load(c, op)

MediaNext ==
  \/ \E g \in Registrars : Registers(g)
  \/ \E c \in Changers : Changes(c)

MediaSpec == MediaInit /\ [][MediaNext]_mediaVars

-----------------------------------------------------------------------------
MediaTypeOK ==
  /\ mediaSetting \in MediaSettings /\ assets \subseteq Registrars /\ assetStatus \in MediaStatus
  /\ \A g \in Registrars : registering[g].step \in {"free", "inserted", "told"}
  /\ \A c \in Changers : change[c].op \in ScanOps \cup {"none"} /\ change[c].loaded \in MediaStatus
  /\ scans \in Seq(Verdicts) /\ recorded \subseteq DOMAIN scans

(* Attempts to register with one key make one asset, and every attempt that   *)
(* is answered is answered with it, whichever of them came first and however *)
(* many failed before (register_media: "a repeated key returns the original  *)
(* result, never a 409").                                                    *)
RegisteredOnce ==
  /\ Cardinality(assets) <= 1
  /\ \A g \in Registrars : registering[g].step = "told" => registering[g].asset \in assets

(* However calls overlap and whichever results come late or twice, an asset   *)
(* is served only if a scan of it found it clean (is_servable: "Quarantine is *)
(* the default").                                                            *)
ServedOnAScan == assetStatus = "clean" => \E k \in recorded : scans[k] = "clean"

(* "INFECTED is terminal" (media_rules.py:18): once a result said infected,  *)
(* nothing but deletion follows, whichever scan is begun or reported then.   *)
InfectedIsFinal == (\E k \in recorded : scans[k] = "infected") => assetStatus \in TERMINAL

(* "Re-scanning a CLEAN asset is allowed and revokes servability for the     *)
(* duration" (media_rules.py:21): an asset is served on the scan begun last. *)
LatestScanDecides == assetStatus = "clean" => scans[Len(scans)] = "clean" /\ Len(scans) \in recorded

(* The first holds in general.  The second takes changes made one at a time: *)
(* _load takes no lock, and _apply writes over what came between.  The third *)
(* takes, as well, that no recorded result is reported again: a report of an  *)
(* earlier scan passes for one of the scan under way (plan_scan_result).     *)
ScansDecide ==
  /\ ServedOnAScan
  /\ mediaSetting.serial => InfectedIsFinal
  /\ mediaSetting.serial /\ mediaSetting.once => LatestScanDecides

(* An asset is registered once and served only when its scan said so        *)
(* (register_media, plan_scan_start, plan_scan_result).                      *)
MediaIsSound == MediaTypeOK /\ RegisteredOnce /\ ScansDecide
=============================================================================
