----------------------------- MODULE DocumentOcr -----------------------------
(***************************************************************************)
(* One arXiv document through the OCR engine: the operator's CLI           *)
(* (document_ocr/arxiv) sends a job to the Modal worker, which keeps its   *)
(* output under the job's identity; the CLI validates that output, puts    *)
(* its artifacts in S3 and upserts the ocr_documents row that arXiv Lens   *)
(* resolves.  The CLI may be killed or interrupted anywhere, the worker    *)
(* may die, and metadata, PDF and configuration change meanwhile.          *)
(*                                                                         *)
(* A digest is the value it is taken of.  What the model returns for a     *)
(* PDF is not deterministic: [id, pages, blocks, images, size, read]: the  *)
(* size of its files together, and what a reader of each reads, unpacked.  *)
(* A file of an output is represented by the output it belongs to.         *)
(***************************************************************************)
EXTENDS Lake, Naturals, Sequences

CONSTANTS PageCounts,    \* pages of each version of the PDF
          Configs,       \* OCR configurations (config_hash)
          SdkOutputs,    \* what GLM-OCR may return
          MaxOutput,     \* limits.max_output_bytes
          LensLimits,    \* what arXiv Lens reads of a file: far less than that
          Clis,          \* processes of the operator
          MaxRecords,    \* bound: metadata revisions
          OcrAttempts    \* bound: CLI invocations

\* The absent value is no output, no manifest and no reference.
ASSUME OcrAssumption ==
    /\ PageCounts \in Seq(Nat) /\ Len(PageCounts) > 0 /\ MaxRecords \in Nat \ {0}
    /\ None \notin SdkOutputs
    /\ \A v \in 1..Len(PageCounts) : \A o \in SdkOutputs :
          /\ [pdf |-> v, manifest |-> o] # None
          /\ \A state \in {"succeeded", "reused"} :
                [state |-> state, pdf |-> v, manifest |-> o] # None

VARIABLES record, withdrawn, \* the curated papers row
          pdf,           \* the version arXiv serves
          deployed,      \* the configuration of the Modal app
          calls,         \* spawned calls, served one at a time (max_containers=1)
          volume,        \* job identity |-> output, or None
          cli,           \* process |-> its run, or None
          ocrTries,
          artifacts,     \* <<processing identity, file>> |-> content, or None
          document       \* the ocr_documents row, or None

ocrVars == <<record, withdrawn, pdf, deployed, calls, volume, cli, ocrTries, artifacts, document>>

\* The extracted files in path order; optional images are treated as every file is.
FILES == <<"elements", "layout_vis", "manifest", "pages">>

processing_id(version, config) == <<version, config>>
job_id(job) == <<job.record, job.config>>
Torn == [state |-> "torn", pdf |-> 0, manifest |-> None]

OcrInit ==
    /\ record = 1 /\ withdrawn = FALSE /\ pdf = 1 /\ deployed \in Configs
    /\ calls = {} /\ volume = [k \in (1..MaxRecords) \X Configs |-> None]
    /\ cli = [p \in Clis |-> None] /\ ocrTries = 0
    /\ artifacts = [k \in ((1..Len(PageCounts)) \X Configs) \X {FILES[i] : i \in DOMAIN FILES} |-> None]
    /\ document = None

NewRecord ==
    /\ record < MaxRecords /\ record' = record + 1 /\ withdrawn' \in BOOLEAN
    /\ UNCHANGED <<pdf, deployed, calls, volume, cli, ocrTries, artifacts, document>>

NewPdf ==
    /\ pdf < Len(PageCounts) /\ pdf' = pdf + 1
    /\ UNCHANGED <<record, withdrawn, deployed, calls, volume, cli, ocrTries, artifacts, document>>

Deploy(config) ==
    /\ deployed # config /\ deployed' = config
    /\ UNCHANGED <<record, withdrawn, pdf, calls, volume, cli, ocrTries, artifacts, document>>

(***************************************************************************)
(* The CLI: process_arxiv_document up to the spawned call.                 *)
(***************************************************************************)
Current(config) ==
    IF document = None THEN FALSE ELSE document.record = record /\ document.config = config

Reuse(config) ==
    IF document = None THEN None
    ELSE IF document.config # config THEN None
    ELSE [pdf |-> document.pdf, manifest |-> document.manifest]

Job(config) == [record |-> record, config |-> config, reuse |-> Reuse(config)]

StartOcr(p, config) ==
    /\ cli[p] = None /\ ocrTries < OcrAttempts
    /\ ~withdrawn /\ ~Current(config)
    /\ ocrTries' = ocrTries + 1
    /\ calls' = calls \cup {[id |-> ocrTries', job |-> Job(config)]}
    /\ cli' = [cli EXCEPT ![p] = [call |-> ocrTries', step |-> "wait", file |-> 1,
                                  job |-> Job(config), output |-> None]]
    /\ UNCHANGED <<record, withdrawn, pdf, deployed, volume, artifacts, document>>

(***************************************************************************)
(* The worker (app.py, worker.py, artifacts.py).                           *)
(***************************************************************************)
\* validate_ocr_output: result and archive are there and agree.
Valid(output) == output # None /\ output # Torn

Committed(key) == Valid(volume[key])

\* What the worker requires of the model: a layout of every page, some element, one
\* picture per page, and a size within the limit.  Malformed blocks are one more failure.
LayoutComplete(output, version) == output.pages = PageCounts[version]
HasElements(output) == output.blocks > 0
PagesPictured(output, version) == output.images = PageCounts[version]
WithinLimit(output) == output.size <= MaxOutput

\* process_document
Complete(output, version) ==
    /\ LayoutComplete(output, version) /\ HasElements(output)
    /\ PagesPictured(output, version) /\ WithinLimit(output)

\* prepare_document: the PDF served now is the one the reuse reference names.
Unchanged(job) == IF job.reuse = None THEN FALSE ELSE job.reuse.pdf = pdf

\* commit_output: a reused output keeps the lineage of its reference.
CommitOutput(state, manifest) == [state |-> state, pdf |-> pdf, manifest |-> manifest]

\* worker.run
Outputs(job) ==
    IF Unchanged(job) THEN {CommitOutput("reused", job.reuse.manifest)}
    ELSE {CommitOutput("succeeded", o) : o \in {x \in SdkOutputs : Complete(x, pdf)}}

\* The call returns to the process that waits for it, if it still does.
Answered(id, step) ==
    [p \in Clis |-> IF cli[p] = None THEN None
                    ELSE IF cli[p].call # id THEN cli[p]
                    ELSE IF step = "failed" THEN None ELSE [cli[p] EXCEPT !.step = step]]

\* The calls are served in the order they were spawned.
InService(call) == \A c \in calls : call.id <= c.id

\* Ocr.run: refused for another configuration, answered from the volume, or run.  A run
\* fails without output (download, model, limits) or dies while it copies the two files.
RemoteRun ==
    /\ \E call \in calls :
          LET key == job_id(call.job)
          IN  /\ InService(call) /\ calls' = calls \ {call}
              /\ \/ /\ call.job.config # deployed
                    /\ cli' = Answered(call.id, "failed") /\ UNCHANGED volume
                 \/ /\ call.job.config = deployed /\ Committed(key)
                    /\ cli' = Answered(call.id, "collect") /\ UNCHANGED volume
                 \/ /\ call.job.config = deployed /\ ~Committed(key)
                    /\ \E output \in Outputs(call.job) :
                          volume' = [volume EXCEPT ![key] = output]
                    /\ cli' = Answered(call.id, "collect")
                 \/ /\ call.job.config = deployed /\ ~Committed(key)
                    /\ \E left \in {None, Torn} : volume' = [volume EXCEPT ![key] = left]
                    /\ cli' = Answered(call.id, "failed")
    /\ UNCHANGED <<record, withdrawn, pdf, deployed, ocrTries, artifacts, document>>

(***************************************************************************)
(* The CLI again: extract_ocr_output, ArxivOcrStore.publish.               *)
(***************************************************************************)
\* _validate_document: the pages, not the elements, are unpacked and limited again.
DocumentValid(output) ==
    /\ PagesPictured(output.manifest, output.pdf) /\ WithinLimit(output.manifest)
    /\ output.manifest.read.pages <= MaxOutput

LineageMatches(job, output) ==
    IF output.state = "reused"
    THEN job.reuse = [pdf |-> output.pdf, manifest |-> output.manifest]
    ELSE /\ job.reuse # None => job.reuse.pdf # output.pdf
         /\ DocumentValid(output)

Running(p, step) == IF cli[p] = None THEN FALSE ELSE cli[p].step = step

Collect(p) ==
    /\ Running(p, "collect")
    /\ LET output == volume[job_id(cli[p].job)]
       IN  cli' = [cli EXCEPT ![p] =
              IF LineageMatches(@.job, output)
              THEN [@ EXCEPT !.output = output,
                             !.step = IF output.state = "reused" THEN "upsert" ELSE "head"]
              ELSE None]
    /\ UNCHANGED <<record, withdrawn, pdf, deployed, calls, volume, ocrTries, artifacts, document>>

Key(run) == <<processing_id(run.output.pdf, run.job.config), FILES[run.file]>>

NextFile(run) == IF run.file = Len(FILES) THEN [run EXCEPT !.step = "upsert"]
                 ELSE [run EXCEPT !.step = "head", !.file = @ + 1]

\* Mutant: an existing object is taken for the file without comparing checksums.
CollidesNever(stored, content) == FALSE

Collides(stored, content) == stored # content

\* _publish_file: look for the object; an equal one is skipped, another one refused.
HeadObject(p) ==
    /\ Running(p, "head")
    /\ LET stored == artifacts[Key(cli[p])]
       IN  cli' = [cli EXCEPT ![p] = IF stored = None THEN [@ EXCEPT !.step = "put"]
                                     ELSE IF Collides(stored, @.output.manifest) THEN None
                                     ELSE NextFile(@)]
    /\ UNCHANGED <<record, withdrawn, pdf, deployed, calls, volume, ocrTries, artifacts, document>>

UploadFile(p) ==
    /\ Running(p, "put")
    /\ artifacts' = [artifacts EXCEPT ![Key(cli[p])] = cli[p].output.manifest]
    /\ cli' = [cli EXCEPT ![p] = NextFile(@)]
    /\ UNCHANGED <<record, withdrawn, pdf, deployed, calls, volume, ocrTries, document>>

Upsert(p) ==
    /\ Running(p, "upsert")
    /\ document' = [record |-> cli[p].job.record, config |-> cli[p].job.config,
                    pdf |-> cli[p].output.pdf, manifest |-> cli[p].output.manifest]
    /\ cli' = [cli EXCEPT ![p] = None]
    /\ UNCHANGED <<record, withdrawn, pdf, deployed, calls, volume, ocrTries, artifacts>>

\* Ctrl-C while it waits cancels the call and terminates its container; a kill does not.
Interrupt(p) ==
    /\ Running(p, "wait")
    /\ LET mine(call) == call.id = cli[p].call
           key == job_id(cli[p].job)
       IN  /\ calls' = {call \in calls : ~mine(call)}
           /\ \/ UNCHANGED volume
              \/ /\ \E call \in calls : mine(call) /\ InService(call)
                 /\ ~Committed(key)
                 /\ volume' = [volume EXCEPT ![key] = Torn]
    /\ cli' = [cli EXCEPT ![p] = None]
    /\ UNCHANGED <<record, withdrawn, pdf, deployed, ocrTries, artifacts, document>>

KillCli(p) ==
    /\ cli[p] # None /\ cli' = [cli EXCEPT ![p] = None]
    /\ UNCHANGED <<record, withdrawn, pdf, deployed, calls, volume, ocrTries, artifacts, document>>

OcrNext ==
    \/ NewRecord \/ NewPdf \/ RemoteRun
    \/ \E config \in Configs : Deploy(config) \/ \E p \in Clis : StartOcr(p, config)
    \/ \E p \in Clis : \/ Collect(p) \/ HeadObject(p) \/ UploadFile(p) \/ Upsert(p)
                       \/ Interrupt(p) \/ KillCli(p)

-----------------------------------------------------------------------------
\* The stored manifest has the row's checksum and lineage, every file it declares its own
\* checksum; one picture per page and some element.
Whole(row) ==
    LET stored(file) == artifacts[<<processing_id(row.pdf, row.config), file>>]
    IN  /\ stored("manifest") = row.manifest
        /\ \A i \in DOMAIN FILES : stored(FILES[i]) = row.manifest
        /\ PagesPictured(row.manifest, row.pdf) /\ HasElements(row.manifest)

\* _read_bytes, read_page_markdown_bundle and read_elements refuse what is larger.
WithinLens(output) == \A i \in DOMAIN FILES : output.read[FILES[i]] <= LensLimits[FILES[i]]

\* arXiv Lens opens the document, its pages, pictures and elements.
LensReads(row) == WithinLens(row.manifest) /\ Whole(row)

\* The current row's artifacts are whole and of one run of the model, whichever attempts left
\* files behind, whatever was reused and whatever changed meanwhile.  arXiv Lens reads them, with
\* one exception: a file between its own limits and the publisher's is published all the same.
DocumentsAreReadable ==
    document # None => /\ Whole(document)
                       /\ WithinLens(document.manifest) => LensReads(document)

\* Without the exception: what publisher and Lens together do not keep.
LensReadsEveryRow == document # None => LensReads(document)
=============================================================================
