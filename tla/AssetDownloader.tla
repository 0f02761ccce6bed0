--------------------------- MODULE AssetDownloader ---------------------------
(***************************************************************************)
(* bridge/downloader.py: store_download inserts the row of an output, then *)
(* writes the file, and writes it only when the row was new.  The suffix   *)
(* is part of the file's name and no part of the row's key.                *)
(***************************************************************************)
EXTENDS DurableStorage

VARIABLE files    \* output files on disk

FilesTypeOK == files \in SUBSET (Jobs \X Assets)
FilesInit == files = {}

\* out.write_bytes: the name of the file has the job, the content and the suffix.
WriteFile(j, a) == files' = files \cup {<<j, a>>}

==============================================================================
