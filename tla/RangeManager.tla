---------------------------- MODULE RangeManager ----------------------------
(***************************************************************************)
(* The parallel download of vendors/sknet/apps: RangeManager splits a file *)
(* into ranges, one RangeDownloader thread fetches each into a part file,  *)
(* the observer callbacks count completions and failures and start failed  *)
(* downloaders again, and wait4Complete composes the parts.                *)
(*                                                                         *)
(* Granularity.  The callbacks run under mMutex.  onFailed and an          *)
(* onComplete that has nothing to recover are one action; one that calls   *)
(* recoverFailedTask keeps mMutex over several, because it joins other     *)
(* threads.  A transfer takes one step for each byte it appends to the     *)
(* part file, so that a failure or a crash may come after any of them.     *)
(*                                                                         *)
(* Data.  A byte is its position in the content, a part file the sequence  *)
(* of the bytes in it; every byte of a response header is HeaderByte.  The *)
(* server answers the range that was asked for.                            *)
(* Progress reports are left out.  A part file outlives the process: the   *)
(* next RangeManager for the same content finds it under the same name.    *)
(***************************************************************************)
EXTENDS Integers, Sequences, FiniteSets

SeqsExt == INSTANCE SequencesExt

CONSTANTS
    Content,   \* mContentLength, in bytes
    MB,        \* 1024 * 1024, scaled down
    Faults,    \* what may go wrong, a subset of AllFaults
    MaxFaults, \* bound: the number of faults of a behaviour
    MaxHeader, \* bound: the bytes of a header that the server did not finish
    MaxRuns    \* bound: the number of RangeManagers made for the content

\* A file cannot be opened; a write to a file fails; a thread cannot be created; the server
\* is silent or refuses the request; the connection is reset; the server closes the
\* connection early; the server redirected the request, so that the outer httpDoTransfer
\* takes the size the inner one returns for an error; the process dies.
AllFaults == {"open", "write", "create", "timeout", "reset", "close", "redirect", "crash"}

ASSUME ConstantsAssumption ==
    /\ Content \in Nat /\ MB \in Nat \ {0}
    /\ Faults \subseteq AllFaults
    /\ MaxFaults \in Nat /\ MaxHeader \in Nat /\ MaxRuns \in Nat \ {0}

-----------------------------------------------------------------------------
(* divdeContentLength: how many ranges, and where each begins and ends.    *)

\* mDownloadCount
Count(content) ==
    IF content < 2 * MB THEN 2
    ELSE IF content < 8 * MB THEN 3
    ELSE IF content < 16 * MB THEN 4
    ELSE 6

\* mRanges[i - 1]
RangeOf(content, i) ==
    LET n == Count(content)
        avg == content \div n
        model == IF i = n THEN content % n ELSE 0
    IN  [begin |-> (i - 1) * avg, end |-> i * avg - 1 + model]

Parts == 1 .. Count(Content)
First(i) == RangeOf(Content, i).begin
Last(i) == RangeOf(Content, i).end
Size(i) == Last(i) - First(i) + 1

\* A byte that is not of the content, and k bytes of a header.
HeaderByte == -1
HeaderOf(k) == [n \in 1 .. k |-> HeaderByte]

-----------------------------------------------------------------------------
VARIABLES
    file,           \* the part files
    begin,          \* RangeDownloader::mRg.begin
    state,          \* RangeDownloader::mRg.state
    got,            \* the bytes of the current transfer: nrecved
    mError,         \* HttpTransfer::mError > 0
    pc,             \* where each downloader's thread is; "off": mRunning is false
    mMutex,         \* "free", or "held" over several actions
    mCompleteCount,
    mFailedCount,
    scan,           \* the i of recoverFailedTask
    mpc,            \* where the thread of doDownload is
    idx,            \* the i of its loops in start and wait4Complete
    composed,       \* the file at mfilePath: the byte at every position written
    runs,           \* the RangeManagers made so far
    faults,         \* the faults so far
    spoiled         \* history: <<part, why>> for the parts that may lack bytes: "closed"
                    \* early, "skipped" bytes when resumed, a byte "unwritten", bytes of a
                    \* header that are "foreign", or "omitted" when composed

partVars == <<file, begin, state, got, mError, spoiled>>
countVars == <<mMutex, mCompleteCount, mFailedCount>>
mngVars == <<mpc, idx, composed, runs>>
vars == <<partVars, pc, countVars, scan, mngVars, faults>>

PartPC == {"off", "open", "request", "recv", "onFailed", "onComplete", "recover", "join",
           "leaving", "lost"}
ManagerPC == {"start", "lock", "sleep", "woken", "merge", "complete", "failed", "deleted"}

Empty == [x \in {} |-> 0]

\* A new RangeManager and its downloaders; the old file at mfilePath is deleted.
Fresh ==
    /\ begin' = [i \in Parts |-> First(i)]
    /\ state' = [i \in Parts |-> "init"]
    /\ got' = [i \in Parts |-> 0]
    /\ mError' = [i \in Parts |-> FALSE]
    /\ pc' = [i \in Parts |-> "off"]
    /\ mMutex' = "free" /\ mCompleteCount' = 0 /\ mFailedCount' = 0
    /\ scan' = 1 /\ idx' = 1 /\ mpc' = "start" /\ composed' = Empty

Init ==
    /\ file = [i \in Parts |-> <<>>]
    /\ begin = [i \in Parts |-> First(i)]
    /\ state = [i \in Parts |-> "init"]
    /\ got = [i \in Parts |-> 0]
    /\ mError = [i \in Parts |-> FALSE]
    /\ pc = [i \in Parts |-> "off"]
    /\ mMutex = "free" /\ mCompleteCount = 0 /\ mFailedCount = 0
    /\ scan = 1 /\ idx = 1 /\ mpc = "start" /\ composed = Empty
    /\ runs = 1 /\ faults = 0 /\ spoiled = {}

\* The fault f happens.
Fault(f) == f \in Faults /\ faults < MaxFaults /\ faults' = faults + 1

Go(i, to) == pc' = [pc EXCEPT ![i] = to]

-----------------------------------------------------------------------------
(* RangeDownloader::threadLoop.                                            *)

\* Mutant: the end of a range taken for its first byte that is not wanted.
WantedShort(i) == Last(i) - begin[i]

\* What the thread still has to fetch by its own account.
Wanted(i) == Last(i) - begin[i] + 1

\* Mutant: the range is not moved behind what the part file already holds.
MovedNot(i) == begin[i]

\* mRg.begin += size.  Range::reset does not move it back.
Moved(i) == begin[i] + Len(file[i])

\* A range that was moved before is moved again, or compared with the size of the
\* whole file, though the part is not complete.
Skipping(i) == IF begin[i] > First(i) /\ Len(file[i]) < Size(i) THEN {<<i, "skipped">>} ELSE {}

\* Open the part file and compare its size with the range.  A file that cannot be
\* opened ends the thread, and no callback is made.
Open(i) ==
    /\ pc[i] = "open"
    /\ \/ /\ Fault("open")
          /\ Go(i, "lost")
          /\ UNCHANGED partVars
       \/ /\ Len(file[i]) >= Wanted(i)
          /\ state' = [state EXCEPT ![i] = "done"]
          /\ Go(i, "onComplete")
          /\ spoiled' = spoiled \cup Skipping(i)
          /\ UNCHANGED <<file, begin, got, mError, faults>>
       \/ /\ Len(file[i]) < Wanted(i)
          /\ begin' = [begin EXCEPT ![i] = Moved(i)]
          /\ got' = [got EXCEPT ![i] = 0]
          /\ Go(i, "request")
          /\ spoiled' = spoiled \cup Skipping(i)
          /\ UNCHANGED <<file, state, mError, faults>>
    /\ UNCHANGED <<countVars, scan, mngVars>>

\* doRangeDownload returns: setDone or setFailed, and then the callback.
Done(i) ==
    /\ state' = [state EXCEPT ![i] = "done"]
    /\ Go(i, "onComplete")
Failed(i) ==
    /\ state' = [state EXCEPT ![i] = "failed"]
    /\ Go(i, "onFailed")

\* The server closes before the end of the header.  What came of the header is appended to
\* the part file like the beginning of a body.  The status and the range of the response
\* were never set, so the transfer may fail or be taken for a complete one.
HeaderCut(i) ==
    /\ Fault("close")
    /\ \E k \in 0 .. MaxHeader :
        LET foreign == IF k > 0 THEN {<<i, "foreign">>} ELSE {}
        IN  /\ file' = [file EXCEPT ![i] = @ \o HeaderOf(k)]
            /\ \/ Failed(i) /\ spoiled' = spoiled \cup foreign
               \/ Done(i) /\ spoiled' = spoiled \cup foreign \cup {<<i, "closed">>}

\* httpDoTransfer up to the body: connect, send the request, read the header, open the part
\* file.  An error while sending is remembered in mError, which nobody resets: the next
\* try with this transfer sends its request and gives up.
Request(i) ==
    /\ pc[i] = "request"
    /\ \/ ~mError[i] /\ Go(i, "recv") /\ UNCHANGED <<file, state, mError, spoiled, faults>>
       \/ mError[i] /\ Failed(i) /\ UNCHANGED <<file, mError, spoiled, faults>>
       \/ /\ \E f \in {"timeout", "open"} : Fault(f)
          /\ Failed(i) /\ UNCHANGED <<file, mError, spoiled>>
       \/ /\ Fault("reset")
          /\ Failed(i) /\ mError' = [mError EXCEPT ![i] = TRUE] /\ UNCHANGED <<file, spoiled>>
       \/ ~mError[i] /\ HeaderCut(i) /\ UNCHANGED mError
    /\ UNCHANGED <<begin, got, countVars, scan, mngVars>>

\* commonReader appends what it read, and does not look whether that could be written.
Recv(i) ==
    /\ pc[i] = "recv" /\ got[i] < Wanted(i)
    /\ got' = [got EXCEPT ![i] = @ + 1]
    /\ \/ /\ file' = [file EXCEPT ![i] = Append(@, begin[i] + got[i])]
          /\ UNCHANGED <<spoiled, faults>>
       \/ /\ Fault("write")
          /\ spoiled' = spoiled \cup {<<i, "unwritten">>}
          /\ UNCHANGED file
    /\ UNCHANGED <<begin, state, mError, pc, countVars, scan, mngVars>>

\* It returns an error for a timeout and for a read that fails, but not when the server
\* closes the connection before the range is complete.
RecvEnd(i) ==
    /\ pc[i] = "recv"
    /\ \/ /\ got[i] = Wanted(i)
          /\ \/ Done(i) /\ UNCHANGED faults
             \/ Fault("redirect") /\ Failed(i)
          /\ UNCHANGED <<mError, spoiled>>
       \/ /\ got[i] < Wanted(i)
          /\ \/ /\ Fault("close") /\ Done(i)
                /\ spoiled' = spoiled \cup {<<i, "closed">>}
                /\ UNCHANGED mError
             \/ /\ Fault("timeout") /\ Failed(i)
                /\ UNCHANGED <<mError, spoiled>>
             \/ /\ Fault("reset") /\ Failed(i)
                /\ mError' = [mError EXCEPT ![i] = TRUE]
                /\ UNCHANGED spoiled
    /\ UNCHANGED <<file, begin, got, countVars, scan, mngVars>>

\* _threadLoop clears mRunning and wakes the threads that join this one.
Leave(i) ==
    /\ pc[i] = "leaving"
    /\ Go(i, "off")
    /\ UNCHANGED <<partVars, countVars, scan, mngVars, faults>>

-----------------------------------------------------------------------------
(* RangeDLObserver, under mMutex.                                          *)

\* mCond.signal: the manager is the only thread that waits.
Signal == mpc' = IF mpc = "sleep" THEN "woken" ELSE mpc

\* The callbacks signal when every part is accounted for.
SignalIfAll(complete, failed) ==
    IF complete + failed >= Count(Content) THEN Signal ELSE UNCHANGED mpc

\* Mutant: the last failure does not wake the manager.
OnFailedQuiet(i) ==
    /\ pc[i] = "onFailed" /\ mMutex = "free"
    /\ mFailedCount' = mFailedCount + 1
    /\ Go(i, "leaving")
    /\ UNCHANGED <<partVars, mMutex, mCompleteCount, scan, mngVars, faults>>

OnFailed(i) ==
    /\ pc[i] = "onFailed" /\ mMutex = "free"
    /\ mFailedCount' = mFailedCount + 1
    /\ SignalIfAll(mCompleteCount, mFailedCount')
    /\ Go(i, "leaving")
    /\ UNCHANGED <<partVars, mMutex, mCompleteCount, scan, idx, composed, runs, faults>>

OnComplete(i) ==
    /\ pc[i] = "onComplete" /\ mMutex = "free"
    /\ mCompleteCount' = mCompleteCount + 1
    /\ \/ /\ mFailedCount = 0
          /\ SignalIfAll(mCompleteCount', 0)
          /\ Go(i, "leaving")
          /\ UNCHANGED <<mMutex, scan>>
       \/ /\ mFailedCount > 0
          /\ mMutex' = "held"
          /\ scan' = 1
          /\ Go(i, "recover")
          /\ UNCHANGED mpc
    /\ UNCHANGED <<partVars, mFailedCount, idx, composed, runs, faults>>

\* Mutant: the failures that were recovered stay counted.
RecoverEndStale(i) ==
    /\ pc[i] = "recover" /\ scan > Count(Content)
    /\ SignalIfAll(mCompleteCount, mFailedCount)
    /\ mMutex' = "free"
    /\ Go(i, "leaving")
    /\ UNCHANGED <<partVars, mCompleteCount, mFailedCount, scan, idx, composed, runs, faults>>

RecoverEnd(i) ==
    /\ pc[i] = "recover" /\ scan > Count(Content)
    /\ mFailedCount' = 0
    /\ SignalIfAll(mCompleteCount, 0)
    /\ mMutex' = "free"
    /\ Go(i, "leaving")
    /\ UNCHANGED <<partVars, mCompleteCount, scan, idx, composed, runs, faults>>

\* recoverFailedTask: a range that failed is reset, and its thread is joined.
Recover(i) ==
    /\ pc[i] = "recover" /\ scan \in Parts
    /\ \/ /\ state[scan] # "failed"
          /\ scan' = scan + 1
          /\ UNCHANGED <<pc, state>>
       \/ /\ state[scan] = "failed"
          /\ state' = [state EXCEPT ![scan] = "init"]
          /\ Go(i, "join")
          /\ UNCHANGED scan
    /\ UNCHANGED <<file, begin, got, mError, spoiled, countVars, mngVars, faults>>

\* Thread::run on a downloader, whose result nobody looks at: without a thread there will
\* be no callback.
Run(to) == \/ to = "open" /\ UNCHANGED faults
           \/ to = "lost" /\ Fault("create")

\* join returns when the thread has ended; then it is run again.
Rerun(i) ==
    /\ pc[i] = "join" /\ pc[scan] = "off"
    /\ \E to \in {"open", "lost"} :
        Run(to) /\ pc' = [pc EXCEPT ![scan] = to, ![i] = "recover"]
    /\ scan' = scan + 1
    /\ UNCHANGED <<partVars, countVars, mngVars>>

-----------------------------------------------------------------------------
(* doDownload: start, wait4Complete, the destructor.                       *)

Start ==
    /\ mpc = "start"
    /\ IF idx \in Parts
       THEN /\ \E to \in {"open", "lost"} : Run(to) /\ Go(idx, to)
            /\ idx' = idx + 1
            /\ UNCHANGED mpc
       ELSE /\ mpc' = "lock"
            /\ UNCHANGED <<pc, idx, faults>>
    /\ UNCHANGED <<partVars, countVars, scan, composed, runs>>

\* The while of wait4Complete.  Past it mMutex is kept until the parts are composed.
Wait ==
    /\ mpc \in {"lock", "woken"} /\ mMutex = "free"
    /\ \/ /\ mFailedCount + mCompleteCount < Count(Content)
          /\ mpc' = "sleep"
          /\ UNCHANGED <<mMutex, idx, faults>>
       \/ /\ mCompleteCount >= Count(Content)
          /\ mpc' = "merge" /\ mMutex' = "held" /\ idx' = 1
          /\ UNCHANGED faults
       \/ /\ mFailedCount + mCompleteCount >= Count(Content)
          /\ \/ mCompleteCount < Count(Content) /\ UNCHANGED faults
             \/ Fault("open")
          /\ mpc' = "failed"
          /\ UNCHANGED <<mMutex, idx>>
    /\ UNCHANGED <<partVars, pc, mCompleteCount, mFailedCount, scan, composed, runs>>

\* The file at mfilePath after the bytes f were written at the begin of the range i.
Written(f, i) ==
    [p \in DOMAIN composed \cup {First(i) + k - 1 : k \in DOMAIN f} |->
        IF p - First(i) + 1 \in DOMAIN f THEN f[p - First(i) + 1] ELSE composed[p]]

\* One part: seek to the begin of its range, copy the part file, delete it.  Nobody looks
\* whether the part file could be opened, or whether a byte could be written: the bytes
\* behind one that was not come one place too early.
Merge ==
    /\ mpc = "merge"
    /\ \/ /\ idx \in Parts
          /\ \/ composed' = Written(file[idx], idx) /\ UNCHANGED <<spoiled, faults>>
             \/ /\ \/ Fault("open") /\ UNCHANGED composed
                   \/ /\ Fault("write")
                      /\ \E k \in DOMAIN file[idx] : composed' = Written(SeqsExt!RemoveAt(file[idx], k), idx)
                /\ spoiled' = spoiled \cup {<<idx, "omitted">>}
          /\ file' = [file EXCEPT ![idx] = <<>>]
          /\ idx' = idx + 1
          /\ UNCHANGED <<mpc, mMutex>>
       \/ /\ idx > Count(Content)
          /\ mpc' = "complete" /\ mMutex' = "free"
          /\ UNCHANGED <<composed, file, idx, spoiled, faults>>
    /\ UNCHANGED <<begin, state, got, mError, pc, mCompleteCount, mFailedCount, scan, runs>>

\* ~RangeManager joins every thread.
Delete ==
    /\ mpc \in {"complete", "failed"}
    /\ \A i \in Parts : pc[i] \in {"off", "lost"}
    /\ mpc' = "deleted"
    /\ UNCHANGED <<partVars, pc, countVars, scan, idx, composed, runs, faults>>

\* The content is downloaded again: after a failure, or by the process that follows one
\* that died.  The part files are as they were left.
Again ==
    /\ runs < MaxRuns
    /\ \/ mpc = "deleted" /\ composed = Empty /\ UNCHANGED faults
       \/ mpc # "deleted" /\ Fault("crash")
    /\ runs' = runs + 1
    /\ Fresh
    /\ spoiled' = {s \in spoiled : /\ s[2] \in {"skipped", "unwritten", "foreign"}
                                  /\ file[s[1]] # <<>>}
    /\ UNCHANGED file

-----------------------------------------------------------------------------
Downloader(i) == \/ Open(i) \/ Request(i) \/ Recv(i) \/ RecvEnd(i) \/ Leave(i)
                 \/ OnFailed(i) \/ OnComplete(i) \/ RecoverEnd(i) \/ Recover(i) \/ Rerun(i)

Manager == Start \/ Wait \/ Merge \/ Delete

Next == Manager \/ Again \/ \E i \in Parts : Downloader(i)

\* The threads are scheduled, select gives up after its timeout, and a thread that
\* can take mMutex again and again takes it at last.  Nobody has to start again.
Fairness == /\ SF_vars(Manager)
            /\ \A i \in Parts : SF_vars(Downloader(i))

Spec == Init /\ [][Next]_vars /\ Fairness

-----------------------------------------------------------------------------
(* Properties.                                                             *)

\* divdeContentLength: whatever the length of the content, the ranges follow each other
\* without gap or overlap and end with its last byte (short contents give empty ranges).
RangesTile(c) ==
    LET n == Count(c)
    IN  /\ RangeOf(c, 1).begin = 0 /\ RangeOf(c, n).end = c - 1
        /\ \A i \in 1 .. n - 1 : RangeOf(c, i + 1).begin = RangeOf(c, i).end + 1
        /\ \A i \in 1 .. n : RangeOf(c, i).end >= RangeOf(c, i).begin - 1

\* wait4Complete goes on only when every downloader has made its last callback: none
\* still writes its part file while the parts are composed, or is started again later.
WaitedForAll ==
    mpc \in {"merge", "complete", "failed"} => \A i \in Parts : pc[i] \in {"leaving", "off"}

\* The part i has suffered why.
Suffered(i, why) == <<i, why>> \in spoiled

\* However often a download is taken up again, a part file holds the first bytes of its
\* range in order and none twice.  Only a part that one manager resumed twice
\* (RangeDownloader.cpp 45-50), or of which a byte could not be written (HttpTransfer.cpp
\* 1087), lacks bytes in between, and then the next manager may fetch some again; and only
\* when a server closed within its header (HttpTransfer.cpp 744-748, 932) a part holds
\* bytes that are not of the content, or more bytes than its range.  Whatever happens, it
\* holds no byte of another range.
PartsInOrder ==
    \A i \in Parts :
        /\ Len(file[i]) <= Size(i) \/ Suffered(i, "foreign")
        /\ \A k \in DOMAIN file[i] :
            /\ \/ file[i][k] \in First(i) .. Last(i)
               \/ file[i][k] = HeaderByte /\ Suffered(i, "foreign")
            /\ \/ file[i][k] = First(i) + k - 1
               \/ \E why \in {"skipped", "unwritten", "foreign"} : Suffered(i, why)

\* When doDownload reports completion, every byte of the content is at its place, but
\* for the parts whose server closed before the end of the header or of the range, that
\* were resumed twice, of which a write failed, or whose file could not be opened for the
\* composition.
CompleteIsWhole ==
    mpc = "complete" =>
        \A i \in Parts : \/ \E s \in spoiled : s[1] = i
                        \/ \A p \in First(i) .. Last(i) : p \in DOMAIN composed /\ composed[p] = p

\* recoverFailedTask, under mMutex, joins a thread that has set its range to failed and
\* waits for mMutex in onFailed.
JoinCycle == \E i, k \in Parts : pc[i] = "join" /\ k = scan /\ pc[k] = "onFailed"

\* A downloader makes no callback, because it could not open its part file or because its
\* thread could not be created, by start or by recoverFailedTask.
Unreported == \E i \in Parts : pc[i] = "lost"

\* The download ends and its manager is deleted, but for the three ways in which
\* wait4Complete waits for a callback that is never made: the cycle of a join, a part file
\* that cannot be opened (RangeDownloader.cpp 32-35), and a thread that cannot be created
\* (RangeManager.cpp 87, 157).
DownloadReturns == mpc = "start" ~> (mpc = "deleted" \/ JoinCycle \/ Unreported)

=============================================================================
