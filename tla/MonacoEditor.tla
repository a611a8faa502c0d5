----------------------------- MODULE MonacoEditor -----------------------------
(***************************************************************************)
(* One page of the Monaco editor (src/apps/monaco/app.js) and the document  *)
(* handlers of its server (src/apps/monaco/server.rs).                       *)
(*                                                                         *)
(* The page starts with a plain text area, loads the default document and   *)
(* then tries to put the Monaco editor in its place.  Open and Save are      *)
(* asynchronous: nothing keeps the user from typing, from changing the path  *)
(* or from pressing them again while a reply is awaited, and two requests    *)
(* travel on two connections.  A handler of the page runs to its next await  *)
(* in one action.                                                            *)
(*                                                                         *)
(* Abstracted: a text is one of a few values, a path is already normalised;  *)
(* the language selection, the theme and the position line are left out.     *)
(* An editor does not hold every text as it was given: the text area turns   *)
(* line ends into LF, the Monaco model makes them all alike and drops a mark *)
(* at the beginning.  PlainForm and MonacoForm say what it holds instead.    *)
(***************************************************************************)
EXTENDS Naturals, FiniteSets

CONSTANTS
    Path,         \* the paths the user opens and saves
    DefaultPath,  \* MONACO_DEFAULT_PATH, what the path field starts with
    Text,         \* the texts of a document
    Starter,      \* the program an absent document starts with
    Absent,       \* no such file
    NotText,      \* a file that is not UTF-8
    PlainForm,    \* what the text area holds once a text is put into it
    MonacoForm,   \* what the Monaco model holds
    Call,         \* the requests the page has under way at most
    MaxLate       \* failed saves of one document that may still be written

ASSUME PathAssumption == DefaultPath \in Path
ASSUME TextAssumption == /\ Starter \in Text
                         /\ {Absent, NotText} \cap Text = {}
\* An editor keeps what an editor of its kind has held, and the starter program.
ASSUME FormAssumption ==
    \A form \in {PlainForm, MonacoForm} :
        /\ form \in [Text -> Text] /\ form[Starter] = Starter
        /\ \A text \in Text : form[form[text]] = form[text]
ASSUME LateAssumption == MaxLate \in Nat
ASSUME CallAssumption == Call # {}

VARIABLES
    files,       \* the file system of the server
    late,        \* by path, the saves the page saw fail whose handler may still write
    path,        \* the path field
    plain,       \* the text of the plain editor
    monaco,      \* the text of the Monaco model, once there is one
    boot,        \* "first" load, "loader" asked for, then "monaco" or "plain"
    savedValue,  \* what the page compares the text with
    status,      \* the status line: "loading", "saving", or an outcome
    calls,       \* the requests under way
    vouchedFor   \* ghost: the document savedValue was taken from; NoPath when the
                 \* page took it for what it is not: see SavedIsStored

vars == <<files, late, path, plain, monaco, boot, savedValue, status, calls, vouchedFor>>

NoPath == "none"

Content == Text \cup {Absent, NotText}

\* `fresh' is a ghost: the request has been handled, what it read or wrote has not
\* been written over since, and a load met no error of the file system that the
\* server answers with Starter.
CallRecord ==
    [kind : {"load", "save"}, path : Path, text : Text,
     stage : {"sent", "answered"}, first : BOOLEAN, fresh : BOOLEAN]

NoCall == [kind |-> "none"]

Pending == {k \in Call : calls[k] # NoCall}

CurrentValue == IF boot = "monaco" THEN monaco ELSE plain

\* What the editor in use holds once a text is put into it.
Shown(text) == IF boot = "monaco" THEN MonacoForm[text] ELSE PlainForm[text]

-----------------------------------------------------------------------------
(* Sending a request: loadDocument and saveDocument up to their fetch *)

Request(kind, text) ==
    [kind |-> kind, path |-> path, text |-> text, stage |-> "sent",
     first |-> FALSE, fresh |-> FALSE]

Load(k) ==
    /\ calls[k] = NoCall
    /\ calls' = [calls EXCEPT ![k] = Request("load", Starter)]
    /\ status' = "loading"
    /\ UNCHANGED <<files, late, path, plain, monaco, boot, savedValue, vouchedFor>>

Save(k) ==
    /\ calls[k] = NoCall
    /\ calls' = [calls EXCEPT ![k] = Request("save", CurrentValue)]
    /\ status' = "saving"
    /\ UNCHANGED <<files, late, path, plain, monaco, boot, savedValue, vouchedFor>>

-----------------------------------------------------------------------------
(* The server *)

\* A document that is absent, or that cannot be read for whatever reason, is
\* answered with the starter program.
HandleDocumentGet(k) ==
    /\ calls[k].kind = "load"
    /\ calls[k].stage = "sent"
    /\ \E readable \in BOOLEAN :
          LET content == files[calls[k].path]
              found   == readable /\ content # Absent
          IN  /\ found => content # NotText
              /\ calls' = [calls EXCEPT ![k].stage = "answered",
                              ![k].text = IF found THEN content ELSE Starter,
                              ![k].fresh = readable]
    /\ UNCHANGED <<files, late, path, plain, monaco, boot, savedValue, status,
                   vouchedFor>>

\* What a write to document p makes of the ghosts: nobody has its text any more.
Stale(p) ==
    [c \in Call |-> IF calls[c] # NoCall /\ calls[c].path = p
                    THEN [calls[c] EXCEPT !.fresh = FALSE] ELSE calls[c]]

Written(p) == vouchedFor' = IF vouchedFor = p THEN NoPath ELSE vouchedFor

HandleDocumentSave(k) ==
    /\ calls[k].kind = "save"
    /\ calls[k].stage = "sent"
    /\ files' = [files EXCEPT ![calls[k].path] = calls[k].text]
    /\ calls' = [Stale(calls[k].path) EXCEPT ![k].stage = "answered", ![k].fresh = TRUE]
    /\ Written(calls[k].path)
    /\ UNCHANGED <<late, path, plain, monaco, boot, savedValue, status>>

\* The handler of a save the page has given up is at its write only now, or does
\* not write all of it: any content may be what the file holds then.
LateWrite(p) ==
    /\ late[p] > 0
    /\ late' = [late EXCEPT ![p] = @ - 1]
    /\ \E rest \in Content \ {Absent} : files' = [files EXCEPT ![p] = rest]
    /\ calls' = Stale(p)
    /\ Written(p)
    /\ UNCHANGED <<path, plain, monaco, boot, savedValue, status>>

-----------------------------------------------------------------------------
(* Replies *)

Answered(k, kind) == calls[k] # NoCall /\ calls[k].kind = kind /\ calls[k].stage = "answered"

\* After the first load, well or badly ended, bootMonaco asks for the editor,
\* unless the loader script is missing.
BootMonaco(first) ==
    /\ boot' \in IF first THEN {"loader", "plain"} ELSE {boot}
    /\ status' = "news"

\* markSaved comes before the text is put into the editor.
LoadReply_MarkFirst(k) ==
    /\ Answered(k, "load")
    /\ path' = calls[k].path
    /\ plain' = PlainForm[calls[k].text]
    /\ monaco' = IF boot = "monaco" THEN MonacoForm[calls[k].text] ELSE monaco
    /\ savedValue' = CurrentValue
    /\ BootMonaco(calls[k].first)
    /\ calls' = [calls EXCEPT ![k] = NoCall]
    /\ vouchedFor' = IF calls[k].fresh THEN calls[k].path ELSE NoPath
    /\ UNCHANGED <<files, late>>

\* setCurrentValue, then markSaved, which takes what the editor holds now.
LoadReply(k) ==
    /\ Answered(k, "load")
    /\ path' = calls[k].path
    /\ plain' = PlainForm[calls[k].text]
    /\ monaco' = IF boot = "monaco" THEN MonacoForm[calls[k].text] ELSE monaco
    /\ savedValue' = IF boot = "monaco" THEN monaco' ELSE plain'
    /\ BootMonaco(calls[k].first)
    /\ calls' = [calls EXCEPT ![k] = NoCall]
    /\ vouchedFor' = IF calls[k].fresh THEN calls[k].path ELSE NoPath
    /\ UNCHANGED <<files, late>>

\* markSaved takes what the editor holds now, not what was sent: if that is not
\* the same any more nothing vouches for it.
SaveReply(k) ==
    /\ Answered(k, "save")
    /\ path' = calls[k].path
    /\ savedValue' = CurrentValue
    /\ status' = "news"
    /\ calls' = [calls EXCEPT ![k] = NoCall]
    /\ vouchedFor' = IF calls[k].fresh /\ CurrentValue = Shown(calls[k].text)
                     THEN calls[k].path ELSE NoPath
    /\ UNCHANGED <<files, late, plain, monaco, boot>>

\* The chain of the first load has no catch.
Fail_NoCatch(k) ==
    /\ calls[k] # NoCall
    /\ \/ UNCHANGED late
       \/ /\ calls[k].kind = "save" /\ calls[k].stage = "sent"
          /\ late[calls[k].path] < MaxLate
          /\ late' = [late EXCEPT ![calls[k].path] = @ + 1]
    /\ BootMonaco(FALSE)
    /\ calls' = [calls EXCEPT ![k] = NoCall]
    /\ UNCHANGED <<files, path, plain, monaco, savedValue, vouchedFor>>

\* The connection fails before or after the server has done its work; the
\* document is no text (415); the file cannot be written, or not all of it.  The
\* handler of a save may still be at work.  The page's catch shows the error.
Fail(k) ==
    /\ calls[k] # NoCall
    /\ \/ UNCHANGED late
       \/ /\ calls[k].kind = "save" /\ calls[k].stage = "sent"
          /\ late[calls[k].path] < MaxLate
          /\ late' = [late EXCEPT ![calls[k].path] = @ + 1]
    /\ BootMonaco(calls[k].first)
    /\ calls' = [calls EXCEPT ![k] = NoCall]
    /\ UNCHANGED <<files, path, plain, monaco, savedValue, vouchedFor>>

-----------------------------------------------------------------------------
(* The user, and the loader of the Monaco scripts *)

Type(text) ==
    /\ text # CurrentValue /\ text = Shown(text)
    /\ IF boot = "monaco" THEN monaco' = text /\ UNCHANGED plain
                          ELSE plain' = text /\ UNCHANGED monaco
    /\ status' = "news"
    /\ UNCHANGED <<files, late, path, boot, savedValue, calls, vouchedFor>>

EnterPath(p) ==
    /\ p # path
    /\ path' = p
    /\ UNCHANGED <<files, late, plain, monaco, boot, savedValue, status, calls,
                   vouchedFor>>

\* The editor is created with the text that was last loaded or saved.
UpgradeToMonaco_WithSaved ==
    /\ boot = "loader"
    /\ boot' = "monaco"
    /\ monaco' = MonacoForm[savedValue]
    /\ status' = "news"
    /\ UNCHANGED <<files, late, path, plain, savedValue, calls, vouchedFor>>

\* The scripts have arrived: the Monaco editor takes over the text.
UpgradeToMonaco ==
    /\ boot = "loader"
    /\ boot' = "monaco"
    /\ monaco' = MonacoForm[plain]
    /\ status' = "news"
    /\ UNCHANGED <<files, late, path, plain, savedValue, calls, vouchedFor>>

\* Or they cannot be had, or the editor cannot be built.
MonacoFails ==
    /\ boot = "loader"
    /\ boot' = "plain"
    /\ status' = "news"
    /\ UNCHANGED <<files, late, path, plain, monaco, savedValue, calls, vouchedFor>>

-----------------------------------------------------------------------------
FirstCall == CHOOSE k \in Call : TRUE

Init ==
    /\ files \in [Path -> Content \ {Starter}]
    /\ late = [p \in Path |-> 0]
    /\ path = DefaultPath
    /\ plain = Starter
    /\ monaco = Starter
    /\ boot = "first"
    /\ savedValue = Starter
    /\ status = "loading"
    /\ calls = [c \in Call |->
                 IF c = FirstCall
                 THEN [kind |-> "load", path |-> DefaultPath, text |-> Starter,
                       stage |-> "sent", first |-> TRUE, fresh |-> FALSE]
                 ELSE NoCall]
    /\ vouchedFor = NoPath

Served(k) ==
    \/ HandleDocumentGet(k)
    \/ HandleDocumentSave(k)
    \/ LoadReply(k)
    \/ SaveReply(k)
    \/ Fail(k)

Loader == UpgradeToMonaco \/ MonacoFails

User ==
    \/ \E k \in Call : Load(k) \/ Save(k)
    \/ \E text \in Text : Type(text)
    \/ \E p \in Path : EnterPath(p)

Next ==
    \/ \E k \in Call : Served(k)
    \/ \E p \in Path : LateWrite(p)
    \/ Loader
    \/ User

Spec == Init /\ [][Next]_vars

-----------------------------------------------------------------------------
(* What must hold *)

StatusLine == {"loading", "saving", "news"}

\* The page, its requests and the files are well formed.
TypeOK ==
    /\ files \in [Path -> Content] /\ late \in [Path -> 0..MaxLate]
    /\ path \in Path /\ vouchedFor \in Path \cup {NoPath}
    /\ {plain, monaco, savedValue} \subseteq Text
    /\ boot \in {"first", "loader", "monaco", "plain"}
    /\ status \in StatusLine
    /\ calls \in [Call -> CallRecord \cup {NoCall}]

\* What the page takes for saved (markSaved, app.js:68) is what an editor shows of
\* the file, through changes of editors, loads and saves that cross and overtake
\* each other, and late writes.  The page goes wrong in three cases only: its editor
\* no longer held what was sent when the answer to a save came; the file was
\* written after it was read or stored for the page's last answer; or a read error
\* passed for a new document.
SavedIsStored ==
    vouchedFor # NoPath =>
        LET stored == IF files[vouchedFor] = Absent THEN Starter ELSE files[vouchedFor]
        IN  stored \in Text /\ savedValue \in {PlainForm[stored], MonacoForm[stored]}

\* The text on the screen survives the change of editors, whatever was typed or
\* loaded while the Monaco scripts were on their way: the new editor holds what it
\* makes of the text as it is then.
UpgradeKeepsText ==
    [][boot' # boot /\ boot # "first"
          => CurrentValue' = IF boot' = "monaco" THEN MonacoForm[CurrentValue]
                                                 ELSE CurrentValue]_vars

\* The page never waits for nothing: while the boot has not asked for the Monaco
\* editor the first load is under way, whatever fails, and while the status line
\* says "loading" or "saving" some request is.
NothingHangs ==
    /\ boot = "first" => \E k \in Pending : calls[k].first
    /\ status # "news" => Pending # {}
=============================================================================
