------------------------- MODULE MCRecordingSession -------------------------
(* Small instances of RecordingSession for TLC, and what documents of the   *)
(* repository say of it that the code does not keep.                        *)
EXTENDS RecordingSession

\* README.md:137: footage of an event and of its windows is retained: while the
\* session lasts it is not deleted, with no exception for the moment in which a
\* segment is handed from the open ones to the waiting ones.
AllFootageKept == phase # "over" => wanted \subseteq files
=============================================================================
