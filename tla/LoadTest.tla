------------------------------ MODULE LoadTest ------------------------------
(***************************************************************************)
(* Load test production: the reader of s3-reader-ltpd and the loader of    *)
(* s3-loader-ltpd with the queue between them.  What the reader sends is a *)
(* message of the loader: <<<<job, object>>, n>> is the n-th message with  *)
(* an object's name for a job.  Others may send to that queue as well.     *)
(***************************************************************************)
EXTENDS LtpdLoader

CONSTANTS
    Reader,        (* the tasks of the reader                                  *)
    JobMessage,    (* the messages of the reader's own queue                   *)
    JobOf, Epoch, Horizon, Object, Archive, PageSize

VARIABLES
    jobs, jobReceipt,             (* the reader's queue                        *)
    reading,                      (* what its tasks are at                     *)
    sends, unsent                 (* names sent, and names a fault took        *)

R == INSTANCE S3Reader WITH
        Task <- Reader, Message <- JobMessage,
        queue <- jobs, receipt <- jobReceipt,
        cur <- reading, refused <- unsent

reader == <<jobs, jobReceipt, reading, sends, unsent>>

MaxCopies == 1 + MaxCrashes + MaxFaults + MaxEarly
Names     == (JobMessage \X Object) \X (1..MaxCopies)

ASSUME LoadTestAssumption ==
    /\ R!ReaderAssumption
    /\ Names \subseteq Message \ Malformed
    /\ \A x, y \in Names : x[1][2] = y[1][2] => Content[x] = Content[y]

\* Only the messages of others are in the loader's queue at first.
LoadTestInit == R!Init /\ InitLoader(Message \ Names)

-----------------------------------------------------------------------------
\* A name the reader sends becomes a message of the loader's queue.
Forwarded ==
    /\ \A u \in R!Unit : sends'[u] # sends[u] => Send({<<u, sends'[u]>>})
    /\ sends' = sends => UNCHANGED <<queue, receipt>>
    /\ UNCHANGED <<polling, sidecars>>

LoadTestNext ==
    \/ R!Next /\ Forwarded
    \/ Next /\ UNCHANGED reader

LoadTestSpec == LoadTestInit /\ [][LoadTestNext]_<<vars, reader>>

-----------------------------------------------------------------------------
(* Properties.                                                             *)

Sent(u) == {<<u, n>> : n \in 1..sends[u]}

\* What a job promised is not lost between the queues: of each object listed for
\* a job that is gone the name was sent, and each sending of it is still in the
\* loader's queue, or each good row of the object is accepted; what is missing was
\* hit by a fault of the reader or of the loader.  Neither a job started twice nor
\* a task that dies between the two queues, nor a stray message that kills loaders,
\* loses a row.
GoneJobsAreDone ==
    \A j \in R!Deleted : \A u \in R!UnitsOf[j] \ unsent :
        /\ Sent(u) # {}
        /\ \A m \in Sent(u) :
              queue[m] \in {"visible", "inflight"} \/ UnitsOf[m] \subseteq Accepted \cup refused
=============================================================================
