-------------------------- MODULE MCExtractorJobs --------------------------
(* Instances of ExtractorJobs for TLC. *)
EXTENDS ExtractorJobs

\* One form of each kind: the extractor goes on, it ended well, it ended otherwise, and a form
\* parse_message_status does not know.
FormsOfEachKind == {"STARTED", "SUCCEEDED", "SKIPPED", "OTHER"}

=============================================================================
