------------------------------ MODULE TempFiles ------------------------------
(***************************************************************************)
(* What an upload leaves on the server's disk.  The diff, parse and        *)
(* extraction routes put an upload into a temporary file, and the page     *)
(* previews of services/_page_render.py add copies with other fonts and    *)
(* converted PDFs.  None of them is meant to stay.  Every call that writes *)
(* or converts may fail; deleting does not.  Requests share no file, so    *)
(* one at a time is enough; what it leaves is there for the next one.      *)
(***************************************************************************)
EXTENDS Integers

VARIABLES
  onDisk,     (* temporary files that exist                                *)
  upload,     (* the request: its route, step, formats, and the files that *)
              (*   the finally blocks it has entered delete                *)
  mishap      (* history: a call failed that no cleanup stands behind      *)

tempVars == <<onDisk, upload, mishap>>

Routes == {"diff", "parse", "parseImage", "jsonl", "extract"}
(* "office" but .docx is also in _OFFICE_CONVERT_EXTS; "text": html, txt,  *)
(* md; "other": no preview.                                                *)
Formats == {"pdf", "scan", "docx", "office", "text", "other"}
UploadOf(side) == IF side = 1 THEN "upload_a" ELSE "upload_b"
NoUpload == [pc |-> "idle", route |-> "none", formats |-> <<"other", "other">>,
             side |-> 1, guarded |-> {}, answer |-> "none", back |-> "none"]

TempInit == onDisk = {} /\ upload = NoUpload /\ mishap = FALSE

AtStep(pc) == upload.pc = pc
Format == upload.formats[upload.side]
Step(pc) == upload' = [upload EXCEPT !.pc = pc]
Answered(a) == upload' = [NoUpload EXCEPT !.answer = a]
-----------------------------------------------------------------------------
(* Formats that a route refuses (and a missing docling) end it before      *)
(* there is a file.                                                        *)
Accepts(route, f) ==
  CASE route = "diff" -> TRUE
    [] route = "extract" -> f \in {"pdf", "scan"}
    [] route = "parseImage" -> f = "scan"
    [] OTHER -> f # "other"

Receive(route, f, g) ==
  /\ AtStep("idle") /\ Accepts(route, f)
  /\ route # "diff" => g = f
  /\ upload' = [NoUpload EXCEPT !.pc = "write", !.route = route, !.formats = <<f, g>>]
  /\ UNCHANGED <<onDisk, mishap>>

(* NamedTemporaryFile(delete=False): if the write raises the file stays.   *)
WriteUpload ==
  /\ AtStep("write")
  /\ onDisk' = onDisk \cup {UploadOf(upload.side)}
  /\ \/ /\ CASE upload.route \in {"diff", "extract"} -> Step("extract")
             [] upload.route = "parseImage" ->
                  upload' = [upload EXCEPT !.pc = "preview", !.guarded = {"upload_a"}]
             [] OTHER -> IF Format \in {"docx", "office"}
                         THEN upload' = [upload EXCEPT !.pc = "convert", !.back = "parse"]
                         ELSE upload' = [upload EXCEPT !.pc = "parse",
                                           !.guarded = {"upload_a", "parse_pdf"}]
        /\ UNCHANGED mishap
     \/ Answered("error") /\ mishap' = TRUE

(* _extract_to_tmp, or _run of the extraction: a failure deletes the file  *)
(* of the extraction that failed, not the one before it.                   *)
ExtractUpload ==
  /\ AtStep("extract")
  /\ \/ /\ UNCHANGED <<onDisk, mishap>>
        /\ IF upload.route = "diff" /\ upload.side = 1
           THEN upload' = [upload EXCEPT !.pc = "write", !.side = 2]
           ELSE upload' = [upload EXCEPT !.side = 1, !.guarded = {"upload_a", "upload_b"},
                  !.pc = IF upload.route = "diff" THEN "preview" ELSE "finish"]
     \/ /\ onDisk' = onDisk \ {UploadOf(upload.side)}
        /\ mishap' = (mishap \/ upload.side = 2)
        /\ Answered("error")

(* _docling_extract: parsing raises or finds nothing, or the preview is    *)
(* made from the PDF, if there is one.  An image that yields no text is    *)
(* answered by _parse_image.                                               *)
Parse ==
  /\ AtStep("parse") /\ UNCHANGED mishap
  /\ \/ Step(IF upload.route = "jsonl" THEN "finish" ELSE "preview") /\ UNCHANGED onDisk
     \/ /\ onDisk' = onDisk \ upload.guarded
        /\ IF upload.route = "parse" /\ Format = "scan"
           THEN upload' = [NoUpload EXCEPT !.pc = "write", !.route = "parseImage",
                             !.formats = upload.formats]
           ELSE Answered("error")

-----------------------------------------------------------------------------
PreviewFormat == IF "parse_pdf" \in onDisk THEN "pdf" ELSE Format

(* render_page_previews.                                                   *)
Preview ==
  /\ AtStep("preview") /\ UNCHANGED <<onDisk, mishap>>
  /\ CASE PreviewFormat = "other" -> Step("previewed")
       [] PreviewFormat = "pdf" -> Step("pages")
       [] PreviewFormat = "scan" -> Step("image")
       [] OTHER -> upload' = [upload EXCEPT !.pc = "convert", !.back = "pages"]

(* _image_to_temp_pdf: nothing, a PDF, or an empty file when only the      *)
(* write failed.                                                           *)
ImageToPdf ==
  /\ AtStep("image")
  /\ \/ Step("previewed") /\ UNCHANGED <<onDisk, mishap>>
     \/ Step("pages") /\ onDisk' = onDisk \cup {"preview_pdf"} /\ UNCHANGED mishap
     \/ Step("previewed") /\ onDisk' = onDisk \cup {"half_pdf"} /\ mishap' = TRUE

(* _convert_to_pdf without a result: the caller goes on.                   *)
NoPdf ==
  IF upload.back = "parse"
  THEN upload' = [upload EXCEPT !.pc = "parse", !.guarded = {"upload_a", "parse_pdf"}]
  ELSE Step("previewed")

FindSoffice ==
  /\ AtStep("convert") /\ UNCHANGED <<onDisk, mishap>>
  /\ \/ NoPdf
     \/ Step(CASE Format = "docx" -> "theme" [] Format = "office" -> "fonts"
               [] OTHER -> "profile")

(* _patch_docx_theme: a copy whose theme names another font, unless that   *)
(* fails or changes nothing.                                               *)
PatchTheme ==
  /\ AtStep("theme") /\ UNCHANGED mishap
  /\ onDisk' \in {onDisk, onDisk \cup {"theme_copy"}}
  /\ Step("fonts")

(* _normalize_fonts catches everything: the original is converted.         *)
FontsFailed == "profile"

(* _normalize_docx, _pptx and _xlsx.  Without a change there is no copy,   *)
(* but a patched theme is a change.  When the document cannot be opened or *)
(* saved, the theme copy stays (as an old one), and so does what was       *)
(* written of the copy.                                                    *)
NormalizeFonts ==
  /\ AtStep("fonts")
  /\ \/ /\ "theme_copy" \notin onDisk
        /\ Step("profile") /\ UNCHANGED <<onDisk, mishap>>
     \/ /\ onDisk' = (onDisk \ {"theme_copy"}) \cup {"normalized"}
        /\ Step("profile") /\ UNCHANGED mishap
     \/ /\ onDisk' = (onDisk \ {"theme_copy"})
                      \cup (IF "theme_copy" \in onDisk THEN {"old_theme"} ELSE {})
        /\ mishap' = (mishap \/ "theme_copy" \in onDisk)
        /\ Step(FontsFailed)
     \/ /\ onDisk' = (onDisk \ {"theme_copy"}) \cup {"half_copy"}
                      \cup (IF "theme_copy" \in onDisk THEN {"old_theme"} ELSE {})
        /\ mishap' = TRUE
        /\ Step(FontsFailed)

(* _ensure_lo_profile and the output directory: before the try, and a full *)
(* disk is not caught.                                                     *)
EnsureProfile ==
  /\ AtStep("profile")
  /\ \/ Step("soffice") /\ onDisk' = onDisk \cup {"out_dir"} /\ UNCHANGED mishap
     \/ Step("raise") /\ mishap' = TRUE /\ UNCHANGED onDisk

(* soffice runs out of time, fails, leaves no PDF, or succeeds; the PDF is *)
(* moved out of its directory, where a failing move leaves an empty file.  *)
(* The finally block deletes the directory and the copy.                   *)
RunSoffice ==
  LET kept == onDisk \ {"out_dir", "normalized"}
      pdf == IF upload.back = "parse" THEN "parse_pdf" ELSE "preview_pdf"
  IN /\ AtStep("soffice")
     /\ \/ NoPdf /\ onDisk' = kept /\ UNCHANGED mishap
        \/ /\ onDisk' = kept \cup {pdf} /\ UNCHANGED mishap
           /\ upload' = [upload EXCEPT !.pc = upload.back, !.guarded =
                IF upload.back = "parse" THEN {"upload_a", "parse_pdf"} ELSE @]
        \/ Step("raise") /\ onDisk' = kept \cup {"half_pdf"} /\ mishap' = TRUE

(* _render_pdf gives all pages, some or none; the PDF made for it goes.    *)
RenderPages ==
  /\ AtStep("pages")
  /\ onDisk' = onDisk \ {"preview_pdf"}
  /\ Step("previewed")
  /\ UNCHANGED mishap

Previewed ==
  /\ AtStep("previewed") /\ UNCHANGED <<onDisk, mishap>>
  /\ IF upload.route = "diff" /\ upload.side = 1
     THEN upload' = [upload EXCEPT !.pc = "preview", !.side = 2]
     ELSE Step("finish")

(* An exception reaches the finally block of the route, if it entered one. *)
Raise ==
  /\ AtStep("raise")
  /\ onDisk' = onDisk \ upload.guarded
  /\ Answered("error") /\ UNCHANGED mishap

(* Fault: the finally block knows the upload only.                         *)
UploadOnlyFault(guarded) == guarded \ {"parse_pdf"}

Deleted(guarded) == guarded

(* The finally blocks; for an extraction the cleanup after the evidence,   *)
(* which is drawn without another file.                                    *)
FinishUpload ==
  /\ AtStep("finish")
  /\ onDisk' = onDisk \ Deleted(upload.guarded)
  /\ Answered("ok") /\ UNCHANGED mishap

TempNext ==
  \/ \E route \in Routes \ {"parseImage"}, f, g \in Formats : Receive(route, f, g)
  \/ WriteUpload \/ ExtractUpload \/ Parse \/ Preview \/ ImageToPdf \/ FindSoffice
  \/ PatchTheme \/ NormalizeFonts \/ EnsureProfile \/ RunSoffice \/ RenderPages
  \/ Previewed \/ Raise \/ FinishUpload

TempSpec == TempInit /\ [][TempNext]_tempVars
-----------------------------------------------------------------------------
TempTypeOK ==
  /\ onDisk \subseteq {"upload_a", "upload_b", "theme_copy", "old_theme", "normalized",
       "half_copy", "out_dir", "preview_pdf", "parse_pdf", "half_pdf"}
  /\ upload.route \in Routes \cup {"none"} /\ upload.answer \in {"none", "ok", "error"}
  /\ upload.guarded \subseteq {"upload_a", "upload_b", "parse_pdf"}
  /\ mishap \in BOOLEAN

(* Every failure is handled but those that `mishap` names - a full disk,   *)
(* fonts of a copy that cannot be set, and a second upload of a comparison *)
(* that cannot be extracted: an answered request leaves no file of its     *)
(* document behind, and what goes wrong with a preview stops no answer.    *)
FailuresHandled ==
  ~mishap => /\ AtStep("idle") => onDisk = {}
             /\ ~AtStep("raise")
=============================================================================
