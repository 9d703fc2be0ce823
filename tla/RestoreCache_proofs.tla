------------------------ MODULE RestoreCache_proofs ------------------------
(***************************************************************************)
(* What holds of the restore cache for any files, clients, contents and    *)
(* number of faults: a client is sent the content its row records, and the *)
(* copy it was promised is left alone until it is opened, and a file that  *)
(* was restored can be restored again.                                     *)
(***************************************************************************)
EXTENDS RestoreCache, TLAPS

\* What a row says is settled before a download relies on it.
RowInv ==
  \A f \in Files :
    /\ packing[f] # "idle" => row[f].kind = "pending" /\ patch[f] \in Contents
    /\ row[f].kind = "delta" => row[f].sha \in Contents

\* Whoever works on a copy occupies the event loop, and the hash it goes by is that of
\* the row still.
LoopInv ==
  \A c \in Clients :
    dl[c].step \in {"check", "decode", "verify"} => loop = c /\ dl[c].cached
AskedInv ==
  \A c \in Clients :
    dl[c].step # "idle" /\ dl[c].cached
      => row[dl[c].file].kind = "delta" /\ dl[c].want = row[dl[c].file].sha
CopyInv ==
  \A c \in Clients :
    /\ dl[c].step = "decode" => out[dl[c].file] = Torn
    /\ dl[c].step = "open" /\ dl[c].cached => out[dl[c].file] = dl[c].want
    /\ dl[c].step = "sent" /\ dl[c].cached => dl[c].got = dl[c].want

LEMMA RestoreInitType == RestoreInit => RestoreTypeOK
<1> SUFFICES ASSUME RestoreInit PROVE RestoreTypeOK
  OBVIOUS
<1>1. <<FirstBuild, "raw">> \in Contents /\ MaxEvents \in Nat
  BY RestoreAssumption DEF Contents
<1>2. NoDownload \in Download
  BY RestoreAssumption DEF NoDownload, Download
<1> QED BY <1>1, <1>2 DEF RestoreInit, RestoreTypeOK, Row

LEMMA RestoreNextType == RestoreTypeOK /\ RowInv /\ [RestoreNext]_restoreVars => RestoreTypeOK'
<1> SUFFICES ASSUME RestoreTypeOK, RowInv, [RestoreNext]_restoreVars PROVE RestoreTypeOK'
  OBVIOUS
<1> USE DEF RestoreTypeOK, ingestVars, historyVars
<1>a. Size \in [Contents -> Nat] /\ MaxEvents \in Nat
  BY RestoreAssumption
<1>b. \A c \in Clients :
        /\ dl[c] \in Download /\ dl[c].file \in Files
        /\ \A s \in {"idle", "check", "decode", "verify", "open", "sent"} :
             [dl[c] EXCEPT !.step = s] \in Download
  BY DEF Download
<1>c. ASSUME NEW c \in Clients, NEW s \in {"idle", "check", "decode", "verify", "open", "sent"},
             Goto(c, s)
      PROVE  dl' \in [Clients -> Download]
  BY <1>b, <1>c DEF Goto
<1>d. ASSUME NEW c \in Clients, Fail(c)
      PROVE  /\ dl' \in [Clients -> Download] /\ loop' = NoClient
             /\ failed' \in SUBSET Files /\ restored' = restored
  BY <1>b, <1>c, <1>d DEF Fail, File
<1>e. ASSUME NEW c \in Clients, HandOut(c)
      PROVE  /\ dl' \in [Clients -> Download] /\ loop' = NoClient
             /\ restored' \in SUBSET Files /\ failed' = failed
  BY <1>b, <1>c, <1>e DEF HandOut, File
<1>1. ASSUME NEW c \in Clients, NEW f \in Files, ServeAsIs(c, f) PROVE RestoreTypeOK'
  <2>1. [step |-> "open", file |-> f, cached |-> FALSE, want |-> NoHash, got |-> Gone] \in Download
    BY DEF Download
  <2> QED BY <1>1, <2>1 DEF ServeAsIs
<1>2. ASSUME NEW c \in Clients, NEW f \in Files, Lookup(c, f) PROVE RestoreTypeOK'
  <2>1. row[f].sha \in Contents \cup {NoHash}
    BY DEF Row
  <2>2. [step |-> "check", file |-> f, cached |-> TRUE, want |-> row[f].sha, got |-> Gone]
          \in Download
    BY <2>1 DEF Download
  <2> QED BY <1>2, <2>2 DEF Lookup
<1>3. ASSUME NEW c \in Clients, CheckCopy(c) PROVE RestoreTypeOK'
  <2>1. CASE HandOut(c) /\ UNCHANGED out
    BY <1>3, <1>e, <2>1 DEF CheckCopy
  <2>2. CASE Fail(c) /\ UNCHANGED out
    BY <1>3, <1>d, <2>2 DEF CheckCopy
  <2>3. CASE /\ Goto(c, "decode") /\ UNCHANGED <<loop, historyVars>>
             /\ out' = [out EXCEPT ![File(c)] = Torn]
    BY <1>3, <1>c, <2>3 DEF CheckCopy
  <2> QED BY <1>3, <2>1, <2>2, <2>3 DEF CheckCopy, StartDecode
<1>4. ASSUME NEW c \in Clients, Decode(c) PROVE RestoreTypeOK'
  BY <1>4, <1>b DEF Decode, Goto, File
<1>5. ASSUME NEW c \in Clients, DecodeFails(c) PROVE RestoreTypeOK'
  <2>1. events' \in 0..MaxEvents
    BY <1>5, <1>a DEF DecodeFails
  <2>2. out' \in [Files -> Contents \cup {Gone, Torn}]
    BY <1>5 DEF DecodeFails
  <2> QED BY <1>5, <1>d, <2>1, <2>2 DEF DecodeFails
<1>6. ASSUME NEW c \in Clients, Verify(c) PROVE RestoreTypeOK'
  <2>1. CASE HandOut(c) /\ UNCHANGED out
    BY <1>6, <1>e, <2>1 DEF Verify
  <2>2. CASE Fail(c) /\ out' = [out EXCEPT ![File(c)] = Gone]
    BY <1>6, <1>d, <2>2 DEF Verify
  <2> QED BY <1>6, <2>1, <2>2 DEF Verify
<1>7. ASSUME NEW c \in Clients, Open(c) PROVE RestoreTypeOK'
  <2>1. (IF dl[c].cached THEN out[File(c)] ELSE disk[File(c)]) \in Contents \cup {Gone, Torn}
    BY <1>b DEF File
  <2>2. \A g \in Contents \cup {Gone, Torn} :
          [dl[c] EXCEPT !.step = "sent", !.got = g] \in Download
    <3> SUFFICES ASSUME NEW g \in Contents \cup {Gone, Torn}
                 PROVE  [dl[c] EXCEPT !.step = "sent", !.got = g] \in Download
      OBVIOUS
    <3> DEFINE T == Contents \cup {Gone, Torn}
               W == Contents \cup {NoHash}
    <3>1. dl[c] \in [step : {"idle", "check", "decode", "verify", "open", "sent"},
                     file : Files, cached : BOOLEAN, want : W, got : T]
      BY <1>b DEF Download
    <3> HIDE DEF T, W
    <3>2. g \in T
      BY DEF T
    <3>3. [dl[c] EXCEPT !.step = "sent", !.got = g]
            \in [step : {"idle", "check", "decode", "verify", "open", "sent"},
                 file : Files, cached : BOOLEAN, want : W, got : T]
      BY <3>1, <3>2
    <3> QED BY <3>3 DEF Download, T, W
  <2> QED BY <1>7, <2>1, <2>2 DEF Open
<1>8. ASSUME NEW c \in Clients, Close(c) PROVE RestoreTypeOK'
  BY <1>8, <1>b DEF Close, Goto
<1>9. ASSUME NEW f \in Files, Register(f) PROVE RestoreTypeOK'
  <2>1. Size[disk[f]] \in Nat
    BY <1>9, <1>a DEF Register
  <2>2. row[f].kind \in {"none", "pending", "delta"} /\ row[f].sha \in Contents \cup {NoHash}
    BY DEF Row
  <2>3. row' \in [Files -> Row]
    BY <1>9, <2>1, <2>2 DEF Register, Row
  <2> QED BY <1>9, <2>3 DEF Register, PackVars
<1>10. ASSUME NEW f \in Files, Encode(f) PROVE RestoreTypeOK'
  <2>1. Prepared(disk[f]) \in Contents
    BY <1>10 DEF Encode, Prepared, Contents
  <2> QED BY <1>10, <2>1 DEF Encode, PackVars
<1>11. ASSUME NEW f \in Files, RemoveOriginal(f) PROVE RestoreTypeOK'
  BY <1>11 DEF RemoveOriginal, PackVars
<1>12. ASSUME NEW f \in Files, MarkDelta(f) PROVE RestoreTypeOK'
  <2>1. [row[f] EXCEPT !.kind = "delta", !.sha = patch[f]] \in Row
    BY <1>12 DEF MarkDelta, RowInv, Row
  <2> QED BY <1>12, <2>1 DEF MarkDelta, PackVars
<1>13. ASSUME NEW f \in Files, NEW b \in Builds, Rebuild(f, b) PROVE RestoreTypeOK'
  BY <1>13, <1>a DEF Rebuild, Happens, Contents
<1>14. CASE RewriteBase
  BY <1>14, <1>a DEF RewriteBase, Happens
<1>15. CASE RestartServer
  <2>1. dl' \in [Clients -> Download]
    BY <1>15, <1>b DEF RestartServer
  <2> QED BY <1>15, <1>a, <2>1 DEF RestartServer, Happens
<1>16. CASE UNCHANGED restoreVars
  BY <1>16 DEF restoreVars
<1> QED
  BY <1>1, <1>2, <1>3, <1>4, <1>5, <1>6, <1>7, <1>8, <1>9, <1>10, <1>11, <1>12, <1>13, <1>14,
     <1>15, <1>16 DEF RestoreNext, DownloadStep, IngestStep

------------------------------------------------------------------------------
\* The four invariants

LEMMA InitRestore == RestoreInit => RowInv /\ LoopInv /\ AskedInv /\ CopyInv
  BY RestoreAssumption
  DEF RestoreInit, RowInv, LoopInv, AskedInv, CopyInv, NoDownload

\* An ingest settles what a row says before its kind becomes delta.
LEMMA NextRow == RestoreTypeOK /\ RowInv /\ [RestoreNext]_restoreVars => RowInv'
<1> SUFFICES ASSUME RestoreTypeOK, RowInv, [RestoreNext]_restoreVars PROVE RowInv'
  OBVIOUS
<1> USE DEF RowInv
<1>a. /\ row \in [Files -> Row] /\ patch \in [Files -> Contents \cup {Gone}]
      /\ packing \in [Files -> {"idle", "encoded", "removed"}]
      /\ disk \in [Files -> Contents \cup {Gone}]
  BY DEF RestoreTypeOK
<1>1. ASSUME NEW f \in Files, Register(f) PROVE RowInv'
  BY <1>1, <1>a DEF Register, ingestVars
<1>2. ASSUME NEW f \in Files, Encode(f) PROVE RowInv'
  <2>1. Prepared(disk[f]) \in Contents
    BY <1>2, <1>a DEF Encode, Prepared, Contents
  <2> QED BY <1>2, <1>a, <2>1 DEF Encode
<1>3. ASSUME NEW f \in Files, RemoveOriginal(f) PROVE RowInv'
  BY <1>3, <1>a DEF RemoveOriginal
<1>4. ASSUME NEW f \in Files, MarkDelta(f) PROVE RowInv'
  <2>1. row[f] \in Row
    BY <1>a
  <2>2. row'[f].kind = "delta" /\ row'[f].sha = patch[f]
    BY <1>4, <1>a, <2>1 DEF MarkDelta, Row
  <2>3. \A g \in Files \ {f} : row'[g] = row[g] /\ packing'[g] = packing[g]
    BY <1>4, <1>a DEF MarkDelta
  <2>4. packing'[f] = "idle" /\ patch' = patch /\ patch[f] \in Contents
    BY <1>4, <1>a DEF MarkDelta
  <2> QED BY <2>2, <2>3, <2>4
<1>5. CASE UNCHANGED <<row, packing, patch>>
  BY <1>5
<1>6. CASE RestartServer
  BY <1>6, <1>a DEF RestartServer
<1>7. ASSUME NEW c \in Clients, DownloadStep(c) PROVE UNCHANGED <<row, packing, patch>>
  BY <1>7 DEF DownloadStep, ServeAsIs, Lookup, CheckCopy, Decode, DecodeFails, Verify, Open,
              Close, ingestVars
<1>8. CASE \/ \E f \in Files, b \in Builds : Rebuild(f, b)
           \/ RewriteBase \/ UNCHANGED restoreVars
  BY <1>5, <1>8 DEF Rebuild, RewriteBase, restoreVars, ingestVars
<1> QED BY <1>1, <1>2, <1>3, <1>4, <1>5, <1>6, <1>7, <1>8 DEF RestoreNext, IngestStep

\* What the steps of the ingest and of the environment leave of the downloads.
LEMMA OthersSteps ==
  ASSUME RestoreTypeOK, RowInv,
         \/ \E f \in Files : IngestStep(f)
         \/ \E f \in Files, b \in Builds : Rebuild(f, b)
         \/ RewriteBase \/ UNCHANGED restoreVars
  PROVE  /\ UNCHANGED <<dl, loop, out>>
         /\ \A f \in Files : row[f].kind = "delta"
                               => row'[f].kind = "delta" /\ row'[f].sha = row[f].sha
<1>a. row \in [Files -> Row]
  BY DEF RestoreTypeOK
<1>1. UNCHANGED <<dl, loop, out>>
  BY DEF IngestStep, Register, Encode, RemoveOriginal, MarkDelta, Rebuild, RewriteBase,
         PackVars, restoreVars
<1>2. ASSUME NEW f \in Files, Register(f), NEW g \in Files, row[g].kind = "delta"
      PROVE  row'[g].kind = "delta" /\ row'[g].sha = row[g].sha
  BY <1>2, <1>a DEF Register
<1>3. ASSUME NEW f \in Files, MarkDelta(f), NEW g \in Files, row[g].kind = "delta"
      PROVE  row'[g].kind = "delta" /\ row'[g].sha = row[g].sha
  <2>1. g # f
    BY <1>3 DEF MarkDelta, RowInv
  <2> QED BY <1>3, <1>a, <2>1 DEF MarkDelta
<1>4. ASSUME NEW f \in Files, Encode(f) \/ RemoveOriginal(f) PROVE row' = row
  BY <1>4 DEF Encode, RemoveOriginal
<1>5. CASE \/ \E f \in Files, b \in Builds : Rebuild(f, b)
           \/ RewriteBase \/ UNCHANGED restoreVars
  BY <1>5 DEF Rebuild, RewriteBase, restoreVars
<1> QED BY <1>1, <1>2, <1>3, <1>4, <1>5 DEF IngestStep

\* A step of one download moves that download only.
LEMMA GotoEffect ==
  ASSUME RestoreTypeOK, NEW c \in Clients, NEW s, Goto(c, s)
  PROVE  /\ \A d \in Clients \ {c} : dl'[d] = dl[d]
         /\ dl'[c].step = s /\ dl'[c].file = dl[c].file /\ dl'[c].cached = dl[c].cached
         /\ dl'[c].want = dl[c].want /\ dl'[c].got = dl[c].got
<1>1. dl \in [Clients -> Download] /\ dl[c] \in Download
  BY DEF RestoreTypeOK
<1>2. dl' = [dl EXCEPT ![c] = [dl[c] EXCEPT !.step = s]]
  BY DEF Goto
<1> QED BY <1>1, <1>2 DEF Download

LEMMA RestartEffect ==
  ASSUME RestoreTypeOK, RestartServer
  PROVE  \A c \in Clients : dl'[c].step = "idle"
<1> SUFFICES ASSUME NEW c \in Clients PROVE dl'[c].step = "idle"
  OBVIOUS
<1>1. dl[c] \in Download
  BY DEF RestoreTypeOK
<1>2. dl'[c] = [dl[c] EXCEPT !.step = "idle"]
  BY DEF RestartServer
<1> QED BY <1>1, <1>2 DEF Download

LEMMA NextLoop == RestoreTypeOK /\ RowInv /\ LoopInv /\ [RestoreNext]_restoreVars => LoopInv'
<1> SUFFICES ASSUME RestoreTypeOK, RowInv, LoopInv, [RestoreNext]_restoreVars PROVE LoopInv'
  OBVIOUS
<1>a. dl \in [Clients -> Download]
  BY DEF RestoreTypeOK
<1>1. ASSUME NEW c \in Clients, DownloadStep(c) PROVE LoopInv'
  <2>1. ASSUME NEW f \in Files, ServeAsIs(c, f) PROVE LoopInv'
    BY <2>1, <1>a, RestoreAssumption DEF ServeAsIs, LoopInv
  <2>2. ASSUME NEW f \in Files, Lookup(c, f) PROVE LoopInv'
    BY <2>2, <1>a, RestoreAssumption DEF Lookup, LoopInv
  <2>3. CASE CheckCopy(c)
    <3>1. \A d \in Clients \ {c} : dl[d].step \notin {"check", "decode", "verify"}
      BY <2>3 DEF CheckCopy, At, LoopInv
    <3>2. CASE HandOut(c) \/ Fail(c)
      BY <3>1, <3>2, GotoEffect DEF HandOut, Fail, LoopInv
    <3>3. CASE Goto(c, "decode") /\ UNCHANGED loop
      BY <2>3, <3>1, <3>3, GotoEffect DEF CheckCopy, At, LoopInv
    <3> QED BY <2>3, <3>2, <3>3 DEF CheckCopy, StartDecode
  <2>4. CASE Decode(c)
    BY <2>4, <1>a DEF Decode, Goto, At, LoopInv
  <2>5. CASE DecodeFails(c)
    BY <2>5, <1>a DEF DecodeFails, Fail, Goto, At, LoopInv
  <2>6. CASE Verify(c)
    <3>1. \A d \in Clients \ {c} : dl[d].step \notin {"check", "decode", "verify"}
      BY <2>6 DEF Verify, At, LoopInv
    <3>2. HandOut(c) \/ Fail(c)
      BY <2>6 DEF Verify
    <3> QED BY <3>1, <3>2, GotoEffect DEF HandOut, Fail, LoopInv
  <2>7. CASE Open(c)
    BY <2>7, <1>a DEF Open, At, LoopInv
  <2>8. CASE Close(c)
    BY <2>8, <1>a DEF Close, Goto, At, LoopInv
  <2> QED BY <1>1, <2>1, <2>2, <2>3, <2>4, <2>5, <2>6, <2>7, <2>8 DEF DownloadStep
<1>2. CASE RestartServer
  BY <1>2, RestartEffect DEF LoopInv
<1>3. CASE UNCHANGED <<dl, loop>>
  BY <1>3 DEF LoopInv
<1> QED BY <1>1, <1>2, <1>3, OthersSteps DEF RestoreNext

LEMMA OpenEffect ==
  ASSUME RestoreTypeOK, NEW c \in Clients, Open(c)
  PROVE  /\ \A d \in Clients \ {c} : dl'[d] = dl[d]
         /\ dl'[c].step = "sent" /\ dl'[c].file = dl[c].file
         /\ dl'[c].cached = dl[c].cached /\ dl'[c].want = dl[c].want
         /\ dl[c].cached => dl'[c].got = out[dl[c].file]
<1> DEFINE g == IF dl[c].cached THEN out[File(c)] ELSE disk[File(c)]
<1>1. dl \in [Clients -> Download] /\ dl[c] \in Download
  BY DEF RestoreTypeOK
<1>2. dl' = [dl EXCEPT ![c] = [dl[c] EXCEPT !.step = "sent", !.got = g]]
  BY DEF Open
<1>3. dl[c].cached => g = out[dl[c].file]
  BY DEF File
<1> HIDE DEF g
<1> QED BY <1>1, <1>2, <1>3 DEF Download

LEMMA NextWant == RestoreTypeOK /\ RowInv /\ AskedInv /\ [RestoreNext]_restoreVars => AskedInv'
<1> SUFFICES ASSUME RestoreTypeOK, RowInv, AskedInv, [RestoreNext]_restoreVars PROVE AskedInv'
  OBVIOUS
<1>a. dl \in [Clients -> Download]
  BY DEF RestoreTypeOK
<1>1. ASSUME NEW c \in Clients, DownloadStep(c) PROVE AskedInv'
  <2>1. ASSUME NEW f \in Files, ServeAsIs(c, f) PROVE AskedInv'
    BY <2>1, <1>a DEF ServeAsIs, AskedInv
  <2>2. ASSUME NEW f \in Files, Lookup(c, f) PROVE AskedInv'
    BY <2>2, <1>a DEF Lookup, AskedInv
  <2>3. ASSUME NEW s, Goto(c, s), dl[c].step # "idle", row' = row PROVE AskedInv'
    BY <2>3, GotoEffect DEF AskedInv
  <2>4. CASE CheckCopy(c)
    BY <2>3, <2>4 DEF CheckCopy, StartDecode, HandOut, Fail, At
  <2>5. CASE Decode(c) \/ DecodeFails(c)
    BY <2>3, <2>5 DEF Decode, DecodeFails, Fail, At
  <2>6. CASE Verify(c)
    BY <2>3, <2>6 DEF Verify, HandOut, Fail, At
  <2>7. CASE Open(c)
    <3>1. row' = row /\ dl[c].step = "open"
      BY <2>7 DEF Open, At
    <3> QED BY <2>7, <3>1, OpenEffect DEF AskedInv
  <2>8. CASE Close(c)
    BY <2>3, <2>8 DEF Close, At
  <2> QED BY <1>1, <2>1, <2>2, <2>4, <2>5, <2>6, <2>7, <2>8 DEF DownloadStep
<1>2. CASE RestartServer
  BY <1>2, RestartEffect DEF AskedInv
<1>3. ASSUME UNCHANGED dl,
             \A f \in Files : row[f].kind = "delta"
                                => row'[f].kind = "delta" /\ row'[f].sha = row[f].sha
      PROVE  AskedInv'
  BY <1>3, <1>a DEF AskedInv, Download
<1> QED BY <1>1, <1>2, <1>3, OthersSteps DEF RestoreNext

\* A step of a download leaves every copy alone that has been handed out: it writes to a
\* copy that is absent or torn, or removes one that is not what the row records.
LEMMA StepKeepsHandedOut ==
  ASSUME RestoreTypeOK, RowInv, LoopInv, AskedInv, CopyInv,
         NEW c \in Clients, DownloadStep(c),
         NEW d \in Clients, dl[d].step = "open", dl[d].cached
  PROVE  out'[dl[d].file] = out[dl[d].file]
<1>a. /\ dl \in [Clients -> Download] /\ dl[c].file \in Files /\ dl[d].file \in Files
      /\ out \in [Files -> Contents \cup {Gone, Torn}]
  BY DEF RestoreTypeOK, Download
<1>b. /\ out[dl[d].file] = dl[d].want /\ dl[d].want = row[dl[d].file].sha
      /\ dl[d].want \in Contents
  BY <1>a DEF CopyInv, AskedInv, RowInv
<1>c. Gone \notin Contents /\ Torn \notin Contents
  BY RestoreAssumption
<1>1. CASE CheckCopy(c)
  <2>1. CASE UNCHANGED out
    BY <2>1
  <2>2. CASE out[File(c)] = Gone /\ out' = [out EXCEPT ![File(c)] = Torn]
    BY <2>2, <1>a, <1>b, <1>c DEF File
  <2> QED BY <1>1, <2>1, <2>2 DEF CheckCopy, StartDecode
<1>2. CASE Decode(c) \/ DecodeFails(c)
  <2>1. out[File(c)] = Torn
    BY <1>2 DEF Decode, DecodeFails, At, File, CopyInv
  <2>2. \A f \in Files \ {File(c)} : out'[f] = out[f]
    BY <1>2, <1>a DEF Decode, DecodeFails, File
  <2> QED BY <2>1, <2>2, <1>a, <1>b, <1>c
<1>3. CASE Verify(c)
  <2>1. CASE UNCHANGED out
    BY <2>1
  <2>2. CASE out[File(c)] # dl[c].want /\ out' = [out EXCEPT ![File(c)] = Gone]
    <3>1. dl[c].step = "verify"
      BY <1>3 DEF Verify, At
    <3>2. dl[c].want = row[File(c)].sha
      BY <3>1 DEF LoopInv, AskedInv, File
    <3>3. File(c) # dl[d].file
      BY <3>2, <2>2, <1>b
    <3> QED BY <2>2, <3>3, <1>a DEF File
  <2> QED BY <1>3, <2>1, <2>2 DEF Verify
<1>4. CASE \/ \E f \in Files : ServeAsIs(c, f) \/ Lookup(c, f)
           \/ Open(c) \/ Close(c)
  BY <1>4 DEF ServeAsIs, Lookup, Open, Close
<1> QED BY <1>1, <1>2, <1>3, <1>4 DEF DownloadStep

LEMMA NextCopy ==
  RestoreTypeOK /\ RowInv /\ LoopInv /\ AskedInv /\ CopyInv /\ [RestoreNext]_restoreVars
    => CopyInv'
<1> SUFFICES ASSUME RestoreTypeOK, RowInv, LoopInv, AskedInv, CopyInv, [RestoreNext]_restoreVars
             PROVE  CopyInv'
  OBVIOUS
<1>a. /\ dl \in [Clients -> Download] /\ out \in [Files -> Contents \cup {Gone, Torn}]
      /\ \A e \in Clients : dl[e].file \in Files
  BY DEF RestoreTypeOK, Download
<1> DEFINE P(e) == /\ dl[e].step = "decode" => out[dl[e].file] = Torn
                   /\ dl[e].step = "open" /\ dl[e].cached => out[dl[e].file] = dl[e].want
                   /\ dl[e].step = "sent" /\ dl[e].cached => dl[e].got = dl[e].want
<1>1. ASSUME NEW c \in Clients, DownloadStep(c) PROVE CopyInv'
  <2>1. ASSUME NEW f \in Files, ServeAsIs(c, f) PROVE CopyInv'
    BY <2>1, <1>a DEF ServeAsIs, CopyInv
  <2>2. ASSUME NEW f \in Files, Lookup(c, f) PROVE CopyInv'
    BY <2>2, <1>a DEF Lookup, CopyInv
  <2>3. ASSUME dl[c].step \in {"check", "decode", "verify"}, NEW d \in Clients \ {c},
               dl'[d] = dl[d]
        PROVE  P(d)'
    <3>1. dl[d].step # "decode"
      BY <2>3 DEF LoopInv
    <3>2. dl[d].step = "open" /\ dl[d].cached => out'[dl[d].file] = out[dl[d].file]
      BY <1>1, StepKeepsHandedOut
    <3> QED BY <2>3, <3>1, <3>2 DEF CopyInv
  <2>4. ASSUME dl[c].step \in {"check", "decode", "verify"}, NEW s, Goto(c, s),
               s \in {"idle", "verify", "open"} \/ (s = "decode" /\ out'[dl[c].file] = Torn),
               s = "open" => out'[dl[c].file] = dl[c].want
        PROVE  CopyInv'
    <3>1. \A d \in Clients \ {c} : P(d)'
      BY <2>3, <2>4, GotoEffect
    <3>2. P(c)'
      BY <2>4, GotoEffect
    <3> QED BY <3>1, <3>2 DEF CopyInv
  <2>5. CASE CheckCopy(c)
    <3>1. CASE Valid(c) /\ HandOut(c) /\ UNCHANGED out
      BY <2>4, <2>5, <3>1 DEF CheckCopy, At, Valid, HandOut, File
    <3>2. CASE Fail(c)
      BY <2>4, <2>5, <3>2 DEF CheckCopy, At, Fail
    <3>3. CASE Goto(c, "decode") /\ out' = [out EXCEPT ![File(c)] = Torn]
      BY <1>a, <2>4, <2>5, <3>3 DEF CheckCopy, At, File
    <3> QED BY <2>5, <3>1, <3>2, <3>3 DEF CheckCopy, StartDecode
  <2>6. CASE Decode(c)
    BY <2>4, <2>6 DEF Decode, At
  <2>7. CASE DecodeFails(c)
    BY <2>4, <2>7 DEF DecodeFails, Fail, At
  <2>8. CASE Verify(c)
    BY <2>4, <2>8 DEF Verify, HandOut, Fail, At, File
  <2>9. CASE Open(c)
    <3>1. out' = out /\ dl[c].step = "open"
      BY <2>9 DEF Open, At
    <3> QED BY <2>9, <3>1, OpenEffect DEF CopyInv
  <2>10. CASE Close(c)
    <3>1. out' = out /\ Goto(c, "idle")
      BY <2>10 DEF Close
    <3> QED BY <3>1, GotoEffect DEF CopyInv
  <2> QED BY <1>1, <2>1, <2>2, <2>5, <2>6, <2>7, <2>8, <2>9, <2>10 DEF DownloadStep
<1>2. CASE RestartServer
  BY <1>2, RestartEffect DEF CopyInv
<1>3. CASE UNCHANGED <<dl, out>>
  BY <1>3 DEF CopyInv
<1> QED BY <1>1, <1>2, <1>3, OthersSteps DEF RestoreNext

RestoreInv == RestoreTypeOK /\ RowInv /\ LoopInv /\ AskedInv /\ CopyInv

LEMMA RestoreInvariant == RestoreSpec => []RestoreInv
<1>1. RestoreInit => RestoreInv
  BY RestoreInitType, InitRestore DEF RestoreInv
<1>2. RestoreInv /\ [RestoreNext]_restoreVars => RestoreInv'
  BY RestoreNextType, NextRow, NextLoop, NextWant, NextCopy DEF RestoreInv
<1> QED BY <1>1, <1>2, PTL DEF RestoreSpec

------------------------------------------------------------------------------
\* Restoring again

\* The preprocessor leaves the size of a file as it is, as when it is turned off.
SizeIsKept == \A b \in Builds : Size[Prepared(<<b, "raw">>)] = Size[<<b, "raw">>]

LEMMA NoPreprocessorKeepsSizes == ~Preprocess => SizeIsKept
BY DEF SizeIsKept, Prepared

First == <<FirstBuild, "raw">>

\* What is known of a file whose path was never written again: every step of the ingest
\* took it for the first build.
FirstInv ==
  \A f \in Files \ rebuilt :
    /\ disk[f] \in {Gone, First} /\ patch[f] \in {Gone, Prepared(First)}
    /\ row[f].kind # "none" => row[f].size = Size[First]
    /\ row[f].kind = "delta" => row[f].sha = Prepared(First)

\* A copy that was handed out once stays what its row says, until the path is written again.
AgainInv ==
  \A f \in restored \ rebuilt : row[f].kind = "delta" /\ out[f] = Prepared(First)

LEMMA NextFirst == RestoreTypeOK /\ RowInv /\ FirstInv /\ [RestoreNext]_restoreVars => FirstInv'
<1> SUFFICES ASSUME RestoreTypeOK, RowInv, FirstInv, [RestoreNext]_restoreVars PROVE FirstInv'
  OBVIOUS
<1>a. /\ row \in [Files -> Row] /\ patch \in [Files -> Contents \cup {Gone}]
      /\ disk \in [Files -> Contents \cup {Gone}]
      /\ Gone \notin Contents
  BY RestoreAssumption DEF RestoreTypeOK
<1>b. \A f \in Files : row[f].kind \in {"none", "pending", "delta"}
  BY <1>a DEF Row
<1>1. ASSUME NEW f \in Files, Register(f) PROVE FirstInv'
  <2>1. /\ UNCHANGED <<disk, patch, rebuilt>>
        /\ \A g \in Files \ {f} : row'[g] = row[g]
        /\ row'[f].size = Size[disk[f]] /\ row'[f].sha = row[f].sha
        /\ row'[f].kind = "delta" => row[f].kind = "delta"
    BY <1>1, <1>a DEF Register, ingestVars, PackVars
  <2>2. f \notin rebuilt => disk[f] = First
    BY <1>1 DEF Register, FirstInv
  <2> QED BY <2>1, <2>2 DEF FirstInv
<1>2. ASSUME NEW f \in Files, Encode(f) PROVE FirstInv'
  <2>1. /\ UNCHANGED <<disk, row, rebuilt>>
        /\ \A g \in Files \ {f} : patch'[g] = patch[g]
        /\ patch'[f] = Prepared(disk[f])
    BY <1>2, <1>a DEF Encode, PackVars
  <2>2. f \notin rebuilt => disk[f] = First
    BY <1>2 DEF Encode, FirstInv
  <2> QED BY <2>1, <2>2 DEF FirstInv
<1>3. ASSUME NEW f \in Files, RemoveOriginal(f) PROVE FirstInv'
  BY <1>3, <1>a DEF RemoveOriginal, PackVars, FirstInv
<1>4. ASSUME NEW f \in Files, MarkDelta(f) PROVE FirstInv'
  <2>1. row[f] \in Row /\ row' = [row EXCEPT ![f] = [row[f] EXCEPT !.kind = "delta", !.sha = patch[f]]]
    BY <1>4, <1>a DEF MarkDelta
  <2>2. /\ UNCHANGED <<disk, patch, rebuilt>>
        /\ \A g \in Files \ {f} : row'[g] = row[g]
        /\ row'[f].size = row[f].size /\ row'[f].sha = patch[f]
    BY <1>4, <1>a, <2>1 DEF MarkDelta, PackVars, Row
  <2>3. row[f].kind = "pending" /\ patch[f] # Gone
    BY <1>4, <1>a DEF MarkDelta, RowInv
  <2> QED BY <2>2, <2>3 DEF FirstInv
<1>5. ASSUME NEW f \in Files, NEW b \in Builds, Rebuild(f, b) PROVE FirstInv'
  BY <1>5, <1>a DEF Rebuild, FirstInv, ingestVars
<1>6. CASE UNCHANGED <<disk, patch, row, rebuilt>>
  BY <1>6 DEF FirstInv
<1>7. ASSUME NEW c \in Clients, DownloadStep(c) PROVE UNCHANGED <<disk, patch, row, rebuilt>>
  BY <1>7 DEF DownloadStep, ServeAsIs, Lookup, CheckCopy, Decode, DecodeFails, Verify, Open,
              Close, ingestVars
<1> QED
  BY <1>1, <1>2, <1>3, <1>4, <1>5, <1>6, <1>7
  DEF RestoreNext, IngestStep, RewriteBase, RestartServer, restoreVars, ingestVars

\* A download finds the copy of a file that was restored valid: it neither decodes it
\* again nor removes it, and does not fail.
LEMMA RestoredIsValid ==
  ASSUME SizeIsKept, RestoreTypeOK, LoopInv, AskedInv, CopyInv, FirstInv, AgainInv,
         NEW c \in Clients, dl[c].step \in {"check", "decode", "verify"},
         File(c) \in restored \ rebuilt
  PROVE  /\ Valid(c) /\ out[File(c)] = dl[c].want
         /\ dl[c].step # "decode"
<1>1. File(c) \in Files /\ First \in Contents /\ Prepared(First) \in Contents
  BY RestoreAssumption DEF RestoreTypeOK, Download, File, First, Prepared, Contents
<1>2. dl[c].want = row[File(c)].sha /\ row[File(c)].kind = "delta"
  BY DEF LoopInv, AskedInv, File
<1>3. dl[c].want = Prepared(First) /\ row[File(c)].size = Size[First]
  BY <1>1, <1>2 DEF FirstInv
<1>4. Size[Prepared(First)] = Size[First]
  BY RestoreAssumption DEF SizeIsKept, First
<1>5. out[File(c)] = Prepared(First) /\ Torn \notin Contents
  BY RestoreAssumption DEF AgainInv
<1> QED BY <1>1, <1>3, <1>4, <1>5 DEF Valid, CopyInv, File

LEMMA NextAgain ==
  ASSUME SizeIsKept, RestoreInv, FirstInv, AgainInv, RestoredAgain, [RestoreNext]_restoreVars
  PROVE  AgainInv' /\ RestoredAgain'
<1> USE DEF RestoreInv
<1>a. /\ out \in [Files -> Contents \cup {Gone, Torn}] /\ restored \in SUBSET Files
      /\ \A c \in Clients : File(c) \in Files
  BY DEF RestoreTypeOK, Download, File
<1>1. ASSUME NEW c \in Clients, DownloadStep(c) PROVE AgainInv' /\ RestoredAgain'
  <2>1. UNCHANGED <<row, rebuilt>>
    BY <1>1 DEF DownloadStep, ServeAsIs, Lookup, CheckCopy, Decode, DecodeFails, Verify, Open,
                Close
  <2>2. CASE UNCHANGED <<out, restored, failed>>
    BY <2>1, <2>2 DEF AgainInv, RestoredAgain
  <2>3. ASSUME dl[c].step \in {"check", "decode", "verify"}, File(c) \notin restored \ rebuilt,
               \A f \in Files \ {File(c)} : out'[f] = out[f],
               restored' = restored, failed' \subseteq failed \cup ({File(c)} \cap restored)
        PROVE  AgainInv' /\ RestoredAgain'
    BY <1>a, <2>1, <2>3 DEF AgainInv, RestoredAgain
  <2>4. ASSUME dl[c].step \in {"check", "verify"}, out[File(c)] = dl[c].want,
               HandOut(c), UNCHANGED out
        PROVE  AgainInv' /\ RestoredAgain'
    <3>1. dl[c].want = row[File(c)].sha /\ row[File(c)].kind = "delta"
      BY <2>4 DEF LoopInv, AskedInv, File
    <3>2. File(c) \notin rebuilt => out[File(c)] = Prepared(First)
      BY <1>a, <2>4, <3>1 DEF FirstInv
    <3> QED BY <2>1, <2>4, <3>1, <3>2 DEF HandOut, AgainInv, RestoredAgain
  <2>5. ASSUME Fail(c) PROVE /\ restored' = restored
                             /\ failed' \subseteq failed \cup ({File(c)} \cap restored)
    BY <2>5 DEF Fail
  <2>6. CASE CheckCopy(c)
    <3>1. dl[c].step = "check"
      BY <2>6 DEF CheckCopy, At
    <3>2. CASE Valid(c) /\ HandOut(c) /\ UNCHANGED out
      BY <2>4, <3>1, <3>2 DEF Valid
    <3>3. CASE StartDecode(c)
      <4>1. File(c) \notin restored \ rebuilt
        BY <3>1, <3>3, RestoredIsValid DEF StartDecode
      <4>2. /\ restored' = restored /\ failed' \subseteq failed \cup ({File(c)} \cap restored)
            /\ \A f \in Files \ {File(c)} : out'[f] = out[f]
        BY <1>a, <2>5, <3>3 DEF StartDecode, historyVars
      <4> QED BY <2>3, <3>1, <4>1, <4>2
    <3> QED BY <2>6, <3>2, <3>3 DEF CheckCopy
  <2>7. CASE Decode(c) \/ DecodeFails(c)
    <3>1. dl[c].step = "decode"
      BY <2>7 DEF Decode, DecodeFails, At
    <3>2. File(c) \notin restored \ rebuilt
      BY <3>1, RestoredIsValid
    <3>3. \A f \in Files \ {File(c)} : out'[f] = out[f]
      BY <1>a, <2>7 DEF Decode, DecodeFails
    <3>4. restored' = restored /\ failed' \subseteq failed \cup ({File(c)} \cap restored)
      BY <2>5, <2>7 DEF Decode, DecodeFails, historyVars
    <3> QED BY <2>3, <3>1, <3>2, <3>3, <3>4
  <2>8. CASE Verify(c)
    <3>1. dl[c].step = "verify"
      BY <2>8 DEF Verify, At
    <3>2. CASE out[File(c)] = dl[c].want /\ HandOut(c) /\ UNCHANGED out
      BY <2>4, <3>1, <3>2
    <3>3. CASE out[File(c)] # dl[c].want /\ Fail(c) /\ out' = [out EXCEPT ![File(c)] = Gone]
      <4>1. File(c) \notin restored \ rebuilt
        BY <3>1, <3>3, RestoredIsValid
      <4> QED BY <1>a, <2>3, <2>5, <3>1, <3>3, <4>1
    <3> QED BY <2>8, <3>2, <3>3 DEF Verify
  <2> QED
    BY <1>1, <2>2, <2>6, <2>7, <2>8
    DEF DownloadStep, ServeAsIs, Lookup, Open, Close, historyVars
<1>2. ASSUME UNCHANGED <<out, restored, failed>>, rebuilt \subseteq rebuilt',
             \A f \in Files : row[f].kind = "delta" => row'[f].kind = "delta"
      PROVE  AgainInv' /\ RestoredAgain'
  BY <1>2, <1>a DEF AgainInv, RestoredAgain
<1>3. CASE RestartServer
  BY <1>2, <1>3 DEF RestartServer, historyVars
<1>4. CASE \/ \E f \in Files : IngestStep(f)
           \/ \E f \in Files, b \in Builds : Rebuild(f, b)
           \/ RewriteBase \/ UNCHANGED restoreVars
  <2>1. UNCHANGED <<restored, failed>> /\ rebuilt \subseteq rebuilt'
    BY <1>4 DEF IngestStep, Register, Encode, RemoveOriginal, MarkDelta, Rebuild, RewriteBase,
                PackVars, restoreVars, historyVars
  <2> QED BY <1>2, <1>4, <2>1, OthersSteps
<1> QED BY <1>1, <1>3, <1>4 DEF RestoreNext

------------------------------------------------------------------------------
\* Theorems

\* The variables of the downloads and of the cache keep their types.
THEOREM RestoreTypeCorrect == RestoreSpec => []RestoreTypeOK
<1>1. RestoreInv => RestoreTypeOK
  BY DEF RestoreInv
<1> QED BY <1>1, RestoreInvariant, PTL

\* Whatever crashes, fails or is written meanwhile, a client of a delta is sent the content
\* its row records, for any number of files and clients.
THEOREM RecordedIsSent == RestoreSpec => []RestoredIsRecorded
<1>1. RestoreInv => RestoredIsRecorded
  BY DEF RestoreInv, CopyInv, RestoredIsRecorded, At
<1> QED BY <1>1, RestoreInvariant, PTL

\* A copy that was handed out is not written to before it has been opened.
THEOREM HandedOutIsKept == RestoreSpec => HandedOutStays
<1>1. RestoreInv /\ [RestoreNext]_restoreVars
        => [\A f \in Files : HandedOut(f) => out'[f] = out[f]]_restoreVars
  <2> SUFFICES ASSUME RestoreInv, RestoreNext, NEW f \in Files, HandedOut(f)
               PROVE  out'[f] = out[f]
    OBVIOUS
  <2> USE DEF RestoreInv
  <2>1. PICK d \in Clients : dl[d].step = "open" /\ dl[d].cached /\ dl[d].file = f
    BY DEF HandedOut, At, File
  <2>2. ASSUME NEW c \in Clients, DownloadStep(c) PROVE out'[f] = out[f]
    BY <2>1, <2>2, StepKeepsHandedOut
  <2>3. CASE RestartServer
    BY <2>3 DEF RestartServer
  <2> QED BY <2>2, <2>3, OthersSteps DEF RestoreNext
<1> QED BY <1>1, RestoreInvariant, PTL DEF RestoreSpec, HandedOutStays

\* As long as the preprocessor leaves sizes alone, a file that was restored once can be
\* downloaded again, whatever crashes, fails or becomes of the base, until the build
\* server writes to its path.
THEOREM RestoredCanBeAgain ==
  ASSUME SizeIsKept
  PROVE  RestoreSpec => []RestoredAgain
<1> DEFINE Inv == FirstInv /\ AgainInv /\ RestoredAgain
<1>1. RestoreInit => Inv
  BY DEF RestoreInit, FirstInv, AgainInv, RestoredAgain, First
<1>2. RestoreInv /\ Inv /\ [RestoreNext]_restoreVars => Inv'
  BY NextFirst, NextAgain DEF RestoreInv
<1>3. Inv => RestoredAgain
  OBVIOUS
<1> HIDE DEF Inv
<1> QED BY <1>1, <1>2, <1>3, RestoreInvariant, PTL DEF RestoreSpec
=============================================================================
