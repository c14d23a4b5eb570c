------------------------------ MODULE OciClient -------------------------------
(* Two machines of the OCI client side by side, what a job does with an index   *)
(* (CasIndex) and with a blob (BlobUpload), and what is promised of the second. *)
EXTENDS CasIndex

CONSTANTS Sizes, Pieces, ChunkLimit, Threshold, UploadRetries, Strategies, Conducts, NoRange, Invalid

VARIABLES
  size, strategy, conduct, upload_pc, read, offset, chunk, session, stored, late, blob, interrupted

Upload == INSTANCE BlobUpload WITH pc <- upload_pc, MaxRetries <- UploadRetries

(* The finishing PUT commits the whole stream (BlobUpload). *)
FinishWhole == Upload!FinishWhole

(* An upload that returns Ok has left the blob in the registry (BlobUpload). *)
OkMeansStored == Upload!OkMeansStored

(* Interruptions alone make an upload fail only beyond the retries of one chunk *)
(* (BlobUpload).                                                                *)
InterruptionsSurvived == Upload!InterruptionsSurvived
===============================================================================
