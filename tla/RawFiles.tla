------------------------------ MODULE RawFiles ------------------------------
(***************************************************************************)
(* The raw bank exports: the rows of RawFile, the uploads that add to them *)
(* and the page that lists them.                                           *)
(*                                                                         *)
(* The page asks for the files of an account and for the rows of a file in *)
(* effects that run after every render that changed the account or the     *)
(* file.  It cancels nothing: the answers of requests in flight arrive in   *)
(* any order and are applied whatever the page shows by then.               *)
(***************************************************************************)
EXTENDS Integers, Sequences, SequencesExt

CONSTANTS
  Accounts, Files,  \* sequences, in the order the server sorts them in
  Contents,         \* what a file may hold
  Uploaders,        \* the other users who upload
  Page,             \* the uploader of the modelled page
  MaxPicks          \* bound: what users do

VARIABLES
  raw,      \* RawFile: <<account, file>> -> content, unique by constraint
  uploads,  \* the upload each user has in flight
  view,     \* the state of the page
  flight,   \* its requests in flight
  picks

rawVars == <<raw, uploads, view, flight, picks>>

Null == "null"
NoUpload == [step |-> "none"]

(***************************************************************************)
(* services.py.                                                            *)
(***************************************************************************)
list_accounts == SelectSeq(Accounts, LAMBDA a : \E f \in ToSet(Files) : <<a, f>> \in DOMAIN raw)
list_csv_files(a) == SelectSeq(Files, LAMBDA f : <<a, f>> \in DOMAIN raw)
FirstOf(s) == IF s = <<>> THEN Null ELSE s[1]

Put(f, key, value) == [k \in DOMAIN f \cup {key} |-> IF k = key THEN value ELSE f[k]]

Upload(u, account, file, content) ==
  /\ uploads[u] = NoUpload /\ picks < MaxPicks /\ picks' = picks + 1
  /\ uploads' = [uploads EXCEPT ![u] =
       [step |-> "check", key |-> <<account, file>>, content |-> content]]

OtherUploads(u, account, file, content) ==
  /\ account \in ToSet(list_accounts)
  /\ Upload(u, account, file, content)
  /\ UNCHANGED <<raw, view, flight>>

Reply(u, step) == uploads' = [uploads EXCEPT ![u].step = step]

(* The server reads the upload: a text without a header is refused, and a  *)
(* name that is taken.                                                     *)
CheckUpload(u) ==
  /\ uploads[u].step = "check"
  /\ \/ Reply(u, "refused")
     \/ Reply(u, IF uploads[u].key \in DOMAIN raw THEN "refused" ELSE "create")
  /\ UNCHANGED <<raw, view, flight, picks>>

(* Variant: the file is put, whether its name is taken or not. *)
CreateOrReplace(u) ==
  /\ uploads[u].step = "create"
  /\ raw' = Put(raw, uploads[u].key, uploads[u].content) /\ Reply(u, "saved")
  /\ UNCHANGED <<view, flight, picks>>

(* The row is inserted, unless the unique constraint finds the name taken  *)
(* meanwhile.                                                              *)
CreateUpload(u) ==
  /\ uploads[u].step = "create"
  /\ IF uploads[u].key \in DOMAIN raw
       THEN Reply(u, "refused") /\ UNCHANGED raw
       ELSE raw' = Put(raw, uploads[u].key, uploads[u].content) /\ Reply(u, "saved")
  /\ UNCHANGED <<view, flight, picks>>

(* import_banks_dir refreshes or adds one file at a time. *)
ImportFile(a, f, content) ==
  /\ picks < MaxPicks /\ picks' = picks + 1
  /\ raw' = Put(raw, <<a, f>>, content)
  /\ UNCHANGED <<uploads, view, flight>>

(***************************************************************************)
(* The page.                                                               *)
(***************************************************************************)
loadFiles(v, account) ==
  [page |-> [v.page EXCEPT !.files = <<>>, !.rows = Null],
   asked |-> Append(v.asked, [kind |-> "files", account |-> account, file |-> Null])]

loadRows(v, account, file) ==
  [page |-> [v.page EXCEPT !.rows = Null, !.rowsError = FALSE],
   asked |-> Append(v.asked, [kind |-> "rows", account |-> account, file |-> file])]

(* A render of page p and the effects whose dependencies it changed. *)
Rendered(v) ==
  LET p == v.page
      w == IF p.account # view.account THEN loadFiles(v, p.account) ELSE v
      x == IF <<p.account, p.file>> # <<view.account, view.file>> /\ p.file # Null
             THEN loadRows(w, p.account, p.file) ELSE w
  IN view' = x.page /\ flight' = x.asked

(* The page has its requests in flight `rest` and changes to p. *)
Change(p, rest) == Rendered([page |-> p, asked |-> rest])

PickAccount(a) ==
  /\ a \in ToSet(view.accounts) /\ a # view.account
  /\ picks < MaxPicks /\ picks' = picks + 1
  /\ Change([view EXCEPT !.account = a], flight)
  /\ UNCHANGED <<raw, uploads>>

PickFile(f) ==
  /\ Len(view.files) > 1 /\ f \in ToSet(view.files) /\ f # view.file
  /\ picks < MaxPicks /\ picks' = picks + 1
  /\ Change([view EXCEPT !.file = f], flight)
  /\ UNCHANGED <<raw, uploads>>

(* Any request in flight is answered from the rows as they are. *)
Answer(i) ==
  LET r == flight[i]  rest == RemoveAt(flight, i) IN
  /\ \/ /\ r.kind = "accounts"
        /\ Change([view EXCEPT !.accounts = list_accounts,
                               !.account = IF @ = Null THEN FirstOf(list_accounts) ELSE @], rest)
     \/ /\ r.kind = "files"
        /\ Change([view EXCEPT !.files = list_csv_files(r.account),
                               !.file = FirstOf(list_csv_files(r.account))], rest)
     \/ /\ r.kind = "rows"
        /\ Change(IF <<r.account, r.file>> \in DOMAIN raw
                    THEN [view EXCEPT !.rows = <<r.account, r.file>>]
                    ELSE [view EXCEPT !.rowsError = TRUE], rest)
  /\ UNCHANGED <<raw, uploads, picks>>

handleUpload(file, content) ==
  /\ view.account # Null
  /\ Upload(Page, view.account, file, content)
  /\ UNCHANGED <<raw, view, flight>>

(* The answer to the upload: the files of its account are loaded again and *)
(* the new one is picked.                                                  *)
TakeUpload ==
  LET key == uploads[Page].key IN
  /\ uploads[Page].step \in {"saved", "refused"}
  /\ uploads' = [uploads EXCEPT ![Page] = NoUpload]
  /\ IF uploads[Page].step = "saved"
       THEN LET v == loadFiles([page |-> view, asked |-> flight], key[1])
            IN Rendered([v EXCEPT !.page.file = key[2]])
       ELSE UNCHANGED <<view, flight>>
  /\ UNCHANGED <<raw, picks>>

LeaveUpload(u) ==
  /\ uploads[u].step \in {"saved", "refused"} /\ u # Page
  /\ uploads' = [uploads EXCEPT ![u] = NoUpload]
  /\ UNCHANGED <<raw, view, flight, picks>>

RawInit ==
  /\ raw = [k \in {<<a, Files[1]>> : a \in ToSet(Accounts)} \cup {<<Accounts[1], Files[2]>>} |->
              CHOOSE c \in Contents : TRUE]
  /\ uploads = [u \in Uploaders \cup {Page} |-> NoUpload]
  /\ view = [accounts |-> <<>>, account |-> Null, files |-> <<>>, file |-> Null,
             rows |-> Null, rowsError |-> FALSE]
  /\ flight = <<[kind |-> "accounts", account |-> Null, file |-> Null]>>
  /\ picks = 0

RawNext ==
  \/ \E i \in DOMAIN flight : Answer(i)
  \/ \E u \in DOMAIN uploads : CheckUpload(u) \/ CreateUpload(u) \/ LeaveUpload(u)
  \/ \E a \in ToSet(Accounts) : PickAccount(a)
  \/ \E f \in ToSet(Files) : PickFile(f)
  \/ \E f \in ToSet(Files), c \in Contents : handleUpload(f, c)
  \/ \E u \in Uploaders, a \in ToSet(Accounts), f \in ToSet(Files), c \in Contents :
       OtherUploads(u, a, f, c)
  \/ \E a \in ToSet(Accounts), f \in ToSet(Files), c \in Contents : ImportFile(a, f, c)
  \/ TakeUpload

(***************************************************************************)
(* Properties.                                                             *)
(***************************************************************************)
(* An upload never changes a stored export: of two uploads of one name, at *)
(* the same time or later, one is refused (rawdata/services.py:84-95).      *)
UploadsReplaceNothing ==
  [][\A k \in DOMAIN raw : raw'[k] # raw[k] => uploads' = uploads]_rawVars
=============================================================================
