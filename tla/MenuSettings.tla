---------------------------- MODULE MenuSettings ----------------------------
(***************************************************************************)
(* The settings row of a restaurant and the pictures of its menu           *)
(* (menu_service, image_service, api/settings).  A picture is written to   *)
(* the disk first, then its URL is committed, then the file it replaces is *)
(* deleted; the geofence is switched and its point set by partial updates. *)
(* Nothing is locked; a request writes the columns it changed relative to  *)
(* the row it has read, and may die between any two steps.                 *)
(***************************************************************************)
EXTENDS FiniteSets

CONSTANTS
    Slots,          \* pictures: three URLs of the settings row, the photo of a product
    Files,          \* UUID file names
    Requests,       \* requests served at the same time
    NoFile

ASSUME SettingsAssumption ==
    Slots \subseteq {"banner", "qr", "popup", "photo"} /\ NoFile \notin Files

VARIABLES
    made,           \* the settings row has been inserted
    url,            \* [Slots -> file or NoFile]
    fence,          \* [require, point]: require_location; latitude and longitude are there
    file,           \* [Files -> "free", "deleted" or what is stored]
    req             \* [Requests -> [at, slot, new, old, put, seen]]

msVars == <<made, url, fence, file, req>>

NoPut == [require |-> "unset", point |-> FALSE]

NoReq == [at |-> "idle", slot |-> "none", new |-> NoFile, old |-> NoFile, put |-> NoPut,
          seen |-> [require |-> FALSE, point |-> FALSE]]

MsInit ==
    /\ made = FALSE
    /\ url = [s \in Slots |-> NoFile]
    /\ fence = [require |-> FALSE, point |-> FALSE]
    /\ file = [f \in Files |-> "free"]
    /\ req = [r \in Requests |-> NoReq]

EndReq(r) == req' = [req EXCEPT ![r] = NoReq]

-----------------------------------------------------------------------------
(* What is stored for an upload: heavy, more than 25 MB; picture, its magic *)
(* bytes and its decoding; large, more pixels than the slot allows.         *)

Upload == [heavy: BOOLEAN, picture: BOOLEAN, large: BOOLEAN]

\* validate_and_store: any size, cropped to a square.
StoredPhoto(u) == IF u.heavy \/ ~u.picture THEN "rejected" ELSE "square jpg"

StoredBanner(u) == IF u.heavy \/ ~u.picture \/ u.large THEN "rejected" ELSE "jpg"

StoredIllustration(u) == IF u.heavy \/ ~u.picture \/ u.large THEN "rejected" ELSE "jpg"

\* Neither cropped nor blurred: a machine reads it.
StoredQr(u) == IF u.heavy \/ ~u.picture \/ u.large THEN "rejected" ELSE "png"

Stored(slot, u) ==
    CASE slot = "photo" -> StoredPhoto(u)
      [] slot = "banner" -> StoredBanner(u)
      [] slot = "popup" -> StoredIllustration(u)
      [] slot = "qr" -> StoredQr(u)

-----------------------------------------------------------------------------
(* Requests *)

\* The file is written before the database is asked anything.
StoreUpload(r, slot, u) ==
    /\ req[r].at = "idle"
    /\ Stored(slot, u) # "rejected"
    /\ \E f \in {g \in Files : file[g] = "free"} :
         /\ file' = [file EXCEPT ![f] = Stored(slot, u)]
         /\ req' = [req EXCEPT ![r] = [NoReq EXCEPT !.at = IF slot = "photo" THEN "photo" ELSE "open",
                                                    !.slot = slot, !.new = f]]
    /\ UNCHANGED <<made, url, fence>>

\* set_product_image: the file it replaces stays on the disk.
SetPhoto(r) ==
    /\ req[r].at = "photo"
    /\ url' = [url EXCEPT !["photo"] = req[r].new]
    /\ EndReq(r)
    /\ UNCHANGED <<made, fence, file>>

\* The DELETE endpoints of the three settings pictures.
RemovePicture(r, slot) ==
    /\ req[r].at = "idle"
    /\ slot # "photo"
    /\ req' = [req EXCEPT ![r] = [NoReq EXCEPT !.at = "open", !.slot = slot]]
    /\ UNCHANGED <<made, url, fence, file>>

\* PUT /settings: require_location is sent or not, and so is a point.
PutFence(r, require, point) ==
    /\ req[r].at = "idle"
    /\ req' = [req EXCEPT ![r] = [NoReq EXCEPT !.at = "open", !.slot = "fence",
                                               !.put = [require |-> require, point |-> point]]]
    /\ UNCHANGED <<made, url, fence, file>>

\* The row as the request goes on with it.
WithRow(r) ==
    [req[r] EXCEPT !.at = "write", !.seen = fence,
                   !.old = IF req[r].slot \in Slots THEN url[req[r].slot] ELSE NoFile]

\* get_or_create_settings: the SELECT ...
OpenSettings(r) ==
    /\ req[r].at = "open"
    /\ req' = [req EXCEPT ![r] = IF made THEN WithRow(r) ELSE [@ EXCEPT !.at = "create"]]
    /\ UNCHANGED <<made, url, fence, file>>

\* ... and the INSERT, which the unique index refuses to the second.
CreateSettings(r) ==
    /\ req[r].at = "create"
    /\ made' = TRUE
    /\ req' = [req EXCEPT ![r] = IF made THEN NoReq ELSE WithRow(r)]
    /\ UNCHANGED <<url, fence, file>>

\* Mutant: the file is deleted before the row that names it is committed.
DeleteThenWrite(r) ==
    /\ req[r].at = "write" /\ req[r].slot \in Slots
    /\ IF req[r].old # NoFile
       THEN /\ file' = [file EXCEPT ![req[r].old] = "deleted"]
            /\ req' = [req EXCEPT ![r].old = NoFile]
            /\ UNCHANGED url
       ELSE /\ url' = [url EXCEPT ![req[r].slot] = req[r].new]
            /\ EndReq(r)
            /\ UNCHANGED file
    /\ UNCHANGED <<made, fence>>

\* set_banner_image and the like.
WritePicture(r) ==
    /\ req[r].at = "write" /\ req[r].slot \in Slots
    /\ url' = IF req[r].new = req[r].old THEN url ELSE [url EXCEPT ![req[r].slot] = req[r].new]
    /\ IF req[r].old = NoFile THEN EndReq(r)
       ELSE req' = [req EXCEPT ![r].at = "delete", ![r].new = NoFile]
    /\ UNCHANGED <<made, fence, file>>

\* delete_image
DeleteFile(r) ==
    /\ req[r].at = "delete"
    /\ file' = [file EXCEPT ![req[r].old] = "deleted"]
    /\ EndReq(r)
    /\ UNCHANGED <<made, url, fence>>

\* update_settings: the check is on what the row would become, as it was read.
WriteFence(r) ==
    /\ req[r].at = "write" /\ req[r].slot = "fence"
    /\ LET put == req[r].put
           require == IF put.require = "unset" THEN req[r].seen.require ELSE put.require = "on"
           point == put.point \/ req[r].seen.point
       IN  fence' = IF require /\ ~point THEN fence
                    ELSE [require |-> IF require = req[r].seen.require THEN fence.require ELSE require,
                          point |-> fence.point \/ put.point]
    /\ EndReq(r)
    /\ UNCHANGED <<made, url, file>>

\* The process or the connection dies; what was not committed is gone.
DieInRequest(r) ==
    /\ req[r].at # "idle"
    /\ EndReq(r)
    /\ UNCHANGED <<made, url, fence, file>>

-----------------------------------------------------------------------------
MsNext ==
    \/ \E r \in Requests :
         \/ \E slot \in Slots :
              RemovePicture(r, slot) \/ \E u \in Upload : StoreUpload(r, slot, u)
         \/ \E require \in {"on", "off", "unset"}, point \in BOOLEAN : PutFence(r, require, point)
         \/ SetPhoto(r) \/ OpenSettings(r) \/ CreateSettings(r)
         \/ WritePicture(r) \/ DeleteFile(r) \/ WriteFence(r) \/ DieInRequest(r)

MsSpec == MsInit /\ [][MsNext]_msVars

-----------------------------------------------------------------------------
(* Properties *)

(***************************************************************************)
(* Every URL names a file that is there and that its slot can show (the    *)
(* payment code a lossless one), whatever uploads and removals of a slot   *)
(* overlap and wherever one dies; so deleting the file an upload has       *)
(* replaced never takes the one another upload has put there.              *)
(***************************************************************************)
PicturesExist ==
    \A s \in Slots : url[s] # NoFile =>
        file[url[s]] = CASE s = "photo" -> "square jpg" [] s = "qr" -> "png" [] OTHER -> "jpg"

=============================================================================
