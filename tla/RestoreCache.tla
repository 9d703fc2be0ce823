---------------------------- MODULE RestoreCache ----------------------------
(***************************************************************************)
(* Downloads of .debug files: the route looks the path of a build-id up in *)
(* dedup_files, serves the file that stands there, or decodes its patch to *)
(* a cache that is kept from one download to the next (dedup/restore.py).  *)
(* The restore runs on the event loop, so one download at a time is in it; *)
(* the file it returns is opened later, by a thread. Beside them an ingest *)
(* packs files, the build server writes new ones, and the process may end  *)
(* in the middle of a restore.                                             *)
(***************************************************************************)
EXTENDS Integers, FiniteSets

CONSTANTS
  Files,       \* the paths of .debug files that are packed against one base
  Clients,     \* the downloads under way at the same time
  NoClient,    \* nobody
  Gone,        \* no file
  Torn,        \* part of a file, or a wrong one
  NoHash,      \* the sha256 of a row that is not done
  Builds,      \* what the build server may write at a path
  FirstBuild,  \* what it writes there first
  Preprocess,  \* the strategy decompresses a file before it is packed
  Size,        \* [Contents -> Nat]
  MaxEvents    \* how many rewrites, restarts and failures of the decoder may happen

\* A .debug file as delivered, or after the preprocessor. Two files are the same
\* content exactly when their sha256 agree.
Contents == Builds \X {"raw", "prep"}
Prepared(content) == IF Preprocess THEN <<content[1], "prep">> ELSE content

ASSUME RestoreAssumption ==
  /\ NoClient \notin Clients
  /\ {Gone, Torn, NoHash} \cap Contents = {} /\ Gone # Torn
  /\ FirstBuild \in Builds
  /\ Preprocess \in BOOLEAN
  /\ Size \in [Contents -> Nat]
  /\ MaxEvents \in Nat
  /\ Files # {}

VARIABLES
  disk,     \* what stands at each path
  patch,    \* what the patch beside it decodes to
  row,      \* its row in dedup_files
  packing,  \* where the ingest is with it
  base,     \* "packed", or "other" when it is not what the patches were made against
  out,      \* its restored copy under CACHE_DIR/dedup-restored
  loop,     \* the client whose request occupies the event loop, or NoClient
  dl,       \* the download of each client
  restored, \* history: the files that were restored and handed out
  rebuilt,  \* history: the paths that were written again
  failed,   \* history: the files whose restore failed after it had succeeded
  events    \* what has happened of MaxEvents

ingestVars == <<patch, packing>>
historyVars == <<restored, failed>>
restoreVars == <<disk, patch, row, packing, base, out, loop, dl,
                 restored, rebuilt, failed, events>>

\* The fields of dedup_files a restore reads.
Row == [kind : {"none", "pending", "delta"}, size : Nat, sha : Contents \cup {NoHash}]

Download == [step : {"idle", "check", "decode", "verify", "open", "sent"},
             file : Files, cached : BOOLEAN,
             want : Contents \cup {NoHash}, got : Contents \cup {Gone, Torn}]
NoDownload == [step |-> "idle", file |-> CHOOSE f \in Files : TRUE, cached |-> FALSE,
               want |-> NoHash, got |-> Gone]

RestoreInit ==
  /\ disk = [f \in Files |-> <<FirstBuild, "raw">>]
  /\ patch = [f \in Files |-> Gone]
  /\ row = [f \in Files |-> [kind |-> "none", size |-> 0, sha |-> NoHash]]
  /\ packing = [f \in Files |-> "idle"]
  /\ base = "packed"
  /\ out = [f \in Files |-> Gone]
  /\ loop = NoClient
  /\ dl = [c \in Clients |-> NoDownload]
  /\ restored = {} /\ rebuilt = {} /\ failed = {} /\ events = 0

------------------------------------------------------------------------------
\* A download: restore_to_cache, then the response

At(c, s) == dl[c].step = s
File(c) == dl[c].file
Goto(c, s) == dl' = [dl EXCEPT ![c] = [@ EXCEPT !.step = s]]

\* No row, a row that is not done, or the path of a base: the file itself is served.
ServeAsIs(c, f) ==
  /\ At(c, "idle") /\ loop = NoClient
  /\ row[f].kind # "delta"
  /\ disk[f] # Gone
  /\ dl' = [dl EXCEPT ![c] = [step |-> "open", file |-> f, cached |-> FALSE,
                              want |-> NoHash, got |-> Gone]]
  /\ UNCHANGED <<disk, ingestVars, row, base, out, loop, historyVars, rebuilt, events>>

\* The row, the row of the base, and both files are there.
Lookup(c, f) ==
  /\ At(c, "idle") /\ loop = NoClient
  /\ row[f].kind = "delta"
  /\ patch[f] # Gone
  /\ loop' = c
  /\ dl' = [dl EXCEPT ![c] = [step |-> "check", file |-> f, cached |-> TRUE,
                              want |-> row[f].sha, got |-> Gone]]
  /\ UNCHANGED <<disk, ingestVars, row, base, out, historyVars, rebuilt, events>>

\* Mutant: the copy is compared with the size of its patch, which no copy has.
ValidByPatch(c) ==
  /\ out[File(c)] = dl[c].want
  /\ Size[dl[c].want] = 0

\* The size recorded is the one discover saw before the preprocessor.
Valid(c) ==
  /\ out[File(c)] = dl[c].want
  /\ row[File(c)].size = Size[dl[c].want]

\* The request ends with status 500.
Fail(c) ==
  /\ Goto(c, "idle")
  /\ loop' = NoClient
  /\ failed' = failed \cup ({File(c)} \cap restored)
  /\ UNCHANGED restored

HandOut(c) ==
  /\ Goto(c, "open")
  /\ loop' = NoClient
  /\ restored' = restored \cup {File(c)}
  /\ UNCHANGED failed

\* Mutant: the decoder is told to overwrite what is there.
StartOver(c) ==
  /\ ~Valid(c)
  /\ out' = [out EXCEPT ![File(c)] = Torn]
  /\ Goto(c, "decode")
  /\ UNCHANGED <<loop, historyVars>>

\* xdelta3 -d creates its output, and refuses one that exists.
StartDecode(c) ==
  /\ ~Valid(c)
  /\ IF out[File(c)] = Gone
       THEN /\ out' = [out EXCEPT ![File(c)] = Torn]
            /\ Goto(c, "decode")
            /\ UNCHANGED <<loop, historyVars>>
       ELSE Fail(c) /\ UNCHANGED out

CheckCopy(c) ==
  /\ At(c, "check")
  /\ \/ Valid(c) /\ HandOut(c) /\ UNCHANGED out
     \/ StartDecode(c)
  /\ UNCHANGED <<disk, ingestVars, row, base, rebuilt, events>>

\* Against another base the decoder fails or yields something else.
Decode(c) ==
  /\ At(c, "decode")
  /\ out' = [out EXCEPT ![File(c)] = IF base = "packed" THEN patch[File(c)] ELSE Torn]
  /\ Goto(c, "verify")
  /\ UNCHANGED <<disk, ingestVars, row, base, loop, historyVars, rebuilt, events>>

\* What a decoder that fails leaves of its output stays.
DecodeFails(c) ==
  /\ At(c, "decode")
  /\ base = "packed" => events < MaxEvents
  /\ events' = IF base = "packed" THEN events + 1 ELSE events
  /\ out' \in {out, [out EXCEPT ![File(c)] = Gone]}
  /\ Fail(c)
  /\ UNCHANGED <<disk, ingestVars, row, base, rebuilt>>

\* Mutant: the restored file is handed out as the decoder left it.
VerifyNothing(c) ==
  /\ At(c, "verify")
  /\ HandOut(c)
  /\ UNCHANGED <<out, disk, ingestVars, row, base, rebuilt, events>>

Verify(c) ==
  /\ At(c, "verify")
  /\ IF out[File(c)] = dl[c].want
       THEN HandOut(c) /\ UNCHANGED out
       ELSE Fail(c) /\ out' = [out EXCEPT ![File(c)] = Gone]
  /\ UNCHANGED <<disk, ingestVars, row, base, rebuilt, events>>

\* FileResponse opens the path in a thread, after the handler has returned.
Open(c) ==
  /\ At(c, "open")
  /\ dl' = [dl EXCEPT ![c] = [@ EXCEPT !.step = "sent",
              !.got = IF dl[c].cached THEN out[File(c)] ELSE disk[File(c)]]]
  /\ UNCHANGED <<disk, ingestVars, row, base, out, loop, historyVars, rebuilt, events>>

Close(c) ==
  /\ At(c, "sent")
  /\ Goto(c, "idle")
  /\ UNCHANGED <<disk, ingestVars, row, base, out, loop, historyVars, rebuilt, events>>

------------------------------------------------------------------------------
\* The ingest, in its thread: DedupPipeline has all of it, here are the steps that
\* a download can see

PackVars == <<base, out, loop, dl, historyVars, rebuilt, events>>

\* upsert_dedup_file: a row that is there gets the new size and keeps the rest.
Register(f) ==
  /\ disk[f] # Gone
  /\ row' = [row EXCEPT ![f] =
       [kind |-> IF row[f].kind = "none" THEN "pending" ELSE row[f].kind,
        size |-> Size[disk[f]], sha |-> row[f].sha]]
  /\ UNCHANGED <<disk, ingestVars, PackVars>>

Encode(f) ==
  /\ row[f].kind = "pending" /\ packing[f] = "idle"
  /\ disk[f] # Gone
  /\ base = "packed"
  /\ patch[f] = Gone
  /\ patch' = [patch EXCEPT ![f] = Prepared(disk[f])]
  /\ packing' = [packing EXCEPT ![f] = "encoded"]
  /\ UNCHANGED <<disk, row, PackVars>>

RemoveOriginal(f) ==
  /\ packing[f] = "encoded"
  /\ disk' = [disk EXCEPT ![f] = Gone]
  /\ packing' = [packing EXCEPT ![f] = "removed"]
  /\ UNCHANGED <<patch, row, PackVars>>

MarkDelta(f) ==
  /\ packing[f] = "removed"
  /\ row' = [row EXCEPT ![f] = [@ EXCEPT !.kind = "delta", !.sha = patch[f]]]
  /\ packing' = [packing EXCEPT ![f] = "idle"]
  /\ UNCHANGED <<disk, patch, PackVars>>

------------------------------------------------------------------------------
\* The environment

Happens == events < MaxEvents /\ events' = events + 1

\* A build lands on a path that is known already.
Rebuild(f, b) ==
  /\ Happens
  /\ disk' = [disk EXCEPT ![f] = <<b, "raw">>]
  /\ rebuilt' = rebuilt \cup {f}
  /\ UNCHANGED <<ingestVars, row, base, out, loop, dl, historyVars>>

\* The base is written again, or a configuration change leaves it in another form.
RewriteBase ==
  /\ Happens
  /\ base' = "other"
  /\ UNCHANGED <<disk, ingestVars, row, out, loop, dl, historyVars, rebuilt>>

\* The process ends; what the decoder has written so far stays. The rows are taken to
\* be committed: what a restart does to rows that are not is in DedupPipeline.
RestartServer ==
  /\ Happens
  /\ dl' = [c \in Clients |-> [dl[c] EXCEPT !.step = "idle"]]
  /\ loop' = NoClient
  /\ packing' = [f \in Files |-> "idle"]
  /\ UNCHANGED <<disk, patch, row, base, out, historyVars, rebuilt>>

DownloadStep(c) ==
  \/ \E f \in Files : ServeAsIs(c, f) \/ Lookup(c, f)
  \/ CheckCopy(c) \/ Decode(c) \/ DecodeFails(c) \/ Verify(c) \/ Open(c) \/ Close(c)

IngestStep(f) == Register(f) \/ Encode(f) \/ RemoveOriginal(f) \/ MarkDelta(f)

RestoreNext ==
  \/ \E c \in Clients : DownloadStep(c)
  \/ \E f \in Files : IngestStep(f)
  \/ \E f \in Files, b \in Builds : Rebuild(f, b)
  \/ RewriteBase
  \/ RestartServer

RestoreSpec == RestoreInit /\ [][RestoreNext]_restoreVars

------------------------------------------------------------------------------
\* Properties

\* Every variable has its type (columns of dedup_files, files under the cache).
RestoreTypeOK ==
  /\ disk \in [Files -> Contents \cup {Gone}]
  /\ patch \in [Files -> Contents \cup {Gone}]
  /\ row \in [Files -> Row]
  /\ packing \in [Files -> {"idle", "encoded", "removed"}]
  /\ base \in {"packed", "other"}
  /\ out \in [Files -> Contents \cup {Gone, Torn}]
  /\ loop \in Clients \cup {NoClient}
  /\ dl \in [Clients -> Download]
  /\ restored \in SUBSET Files /\ rebuilt \in SUBSET Files /\ failed \in SUBSET Files
  /\ events \in 0..MaxEvents

\* A client that asked for a delta gets the content whose hash its row records, or an
\* error: never a copy that a crash, a failed decoder or another base left behind, nor
\* one that another download changed before it was opened (_restore_delta, FileResponse).
RestoredIsRecorded ==
  \A c \in Clients : At(c, "sent") /\ dl[c].cached => dl[c].got = dl[c].want

\* The copy that a restore has returned is neither removed nor written to before the
\* thread that sends it has opened it, whoever else asks for the file meanwhile.
HandedOut(f) == \E c \in Clients : At(c, "open") /\ dl[c].cached /\ File(c) = f
HandedOutStays == [][\A f \in Files : HandedOut(f) => out'[f] = out[f]]_restoreVars

\* A file that was restored once can be downloaded again, unless the build server has
\* written to its path since (the check of the copy against its row, restore.py:75-78).
RestoredAgain == failed \subseteq rebuilt
=============================================================================
