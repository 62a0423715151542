------------------------------ MODULE RedditSync ------------------------------
(***************************************************************************)
(* RedditManager.update_s3_if_necessary (manager/reddit_manager.py): posts *)
(* come in pages, newest first, and the checkpoint names the newest stored *)
(* post.  A page asked for "before" a post holds the posts just newer than *)
(* it; without a post to start from it holds the newest ones.              *)
(*                                                                         *)
(* Posts are numbered in the order of their creation, from 1.  remote is   *)
(* the number of posts so far, deleted the set of the ones deleted since.  *)
(***************************************************************************)
EXTENDS Naturals, FiniteSets

CONSTANTS
  PageSize,        \* posts in a page of the listing
  MaxSubmissions,  \* _MAX_SUBMISSIONS_PER_UPDATE
  LastPost,        \* bound on the posts
  MaxFaults        \* bound on failing requests and crashes

Assumptions ==
  /\ PageSize \in Nat \ {0} /\ MaxSubmissions \in Nat
  /\ LastPost \in Nat /\ MaxFaults \in Nat

VARIABLES
  remote,      \* number of posts
  deleted,     \* deleted posts
  s3,          \* stored posts
  checkpoint,  \* Reddit/checkpoint_data.txt: a post, 0 at first
  run,         \* the update under way
  faults,
  excuses      \* history: why a post may have been passed over

vars == <<remote, deleted, s3, checkpoint, run, faults, excuses>>

Idle == [pc |-> "idle"]

Posts == 1 .. LastPost

(* since is checkpoint_id, 0 for "no post"; newest is checkpoint_datetime.  *)
Updating ==
  [pc : {"check", "list", "store"}, since : Nat, newest : Nat,
   page : SUBSET Posts, count : Nat]

TypeOK ==
  /\ remote \in 0 .. LastPost
  /\ deleted \subseteq 1 .. remote
  /\ s3 \subseteq 1 .. remote
  /\ checkpoint \in 0 .. remote
  /\ run = Idle \/ run \in Updating
  /\ faults \in 0 .. MaxFaults
  /\ excuses \subseteq {"interrupted", "reset"}

Init ==
  /\ remote = 0
  /\ deleted = {}
  /\ s3 = {}
  /\ checkpoint = 0
  /\ run = Idle
  /\ faults = 0
  /\ excuses = {}

-----------------------------------------------------------------------------
Alive(n) == n \in 1 .. remote /\ n \notin deleted

Newer(post) == {n \in 1 .. remote : Alive(n) /\ n > post}

(* The place of a post among the newer ones, from either end.               *)
FromNewest(n, post) == Cardinality({k \in Newer(post) : k >= n})
FromOldest(n, post) == Cardinality({k \in Newer(post) : k <= n})

(* The listing: the newest posts, or the next ones after a post.  From a    *)
(* deleted post on, Reddit lists nothing.                                   *)
Listing(since) ==
  {n \in Newer(since) :
     \/ since = 0 /\ FromNewest(n, since) <= PageSize
     \/ since # 0 /\ Alive(since) /\ FromOldest(n, since) <= PageSize}

Submit ==
  /\ remote < LastPost
  /\ remote' = remote + 1
  /\ UNCHANGED <<deleted, s3, checkpoint, run, faults, excuses>>

Delete(n) ==
  /\ Alive(n)
  /\ deleted' = deleted \cup {n}
  /\ UNCHANGED <<remote, s3, checkpoint, run, faults, excuses>>

(* The token is asked for and the checkpoint read.                          *)
Start ==
  /\ run = Idle
  /\ run' = [pc |-> "check", since |-> checkpoint, newest |-> checkpoint,
             page |-> {}, count |-> 0]
  /\ UNCHANGED <<remote, deleted, s3, checkpoint, faults, excuses>>

(* _check_checkpoint_id: a post that is gone cannot be started from, and    *)
(* neither can one that could not be looked up.                             *)
CheckCheckpoint ==
  /\ run.pc = "check"
  /\ \E lost \in {FALSE} \cup (IF faults < MaxFaults THEN {TRUE} ELSE {}) :
       /\ faults' = IF lost THEN faults + 1 ELSE faults
       /\ run' = [run EXCEPT !.pc = "list",
                             !.since = IF lost \/ ~Alive(@) THEN 0 ELSE @]
  /\ UNCHANGED <<remote, deleted, s3, checkpoint, excuses>>

(* One turn of the loop.  The newest page alone cannot close a larger gap.  *)
List ==
  /\ run.pc = "list"
  /\ run.count < MaxSubmissions
  /\ LET page == Listing(run.since)
     IN /\ run' = IF page = {} THEN Idle
                  ELSE [run EXCEPT !.pc = "store", !.page = page]
        /\ excuses' = excuses \cup (IF run.since = 0 /\ Cardinality(Newer(run.newest)) > PageSize
                                    THEN {"reset"} ELSE {})
  /\ UNCHANGED <<remote, deleted, s3, checkpoint, faults>>

(* The loop ends at _MAX_SUBMISSIONS_PER_UPDATE.                            *)
Enough ==
  /\ run.pc = "list"
  /\ run.count >= MaxSubmissions
  /\ run' = Idle
  /\ UNCHANGED <<remote, deleted, s3, checkpoint, faults, excuses>>

(* _store_document_to_s3: the newest post of the page that is left, then    *)
(* the checkpoint if the post is newer.                                     *)
StorePost(post) ==
  /\ run.pc = "store"
  /\ post \in run.page /\ \A n \in run.page : n <= post
  /\ s3' = s3 \cup {post}
  /\ checkpoint' = IF post > run.newest THEN post ELSE checkpoint
  /\ run' = [run EXCEPT !.page = @ \ {post}, !.count = @ + 1,
                        !.pc = IF run.page = {post} THEN "list" ELSE @,
                        !.since = IF post > run.newest THEN post ELSE @,
                        !.newest = IF post > @ THEN post ELSE @]
  /\ UNCHANGED <<remote, deleted, faults, excuses>>

(* A request raises, or the task is stopped; only where a page is half      *)
(* stored does this leave a gap under the checkpoint.                       *)
Interrupted ==
  /\ run # Idle
  /\ faults < MaxFaults
  /\ faults' = faults + 1
  /\ run' = Idle
  /\ excuses' = excuses \cup (IF \E n \in run.page : n <= checkpoint
                              THEN {"interrupted"} ELSE {})
  /\ UNCHANGED <<remote, deleted, s3, checkpoint>>

Step == Start \/ CheckCheckpoint \/ List \/ Enough \/ \E n \in Posts : StorePost(n)

Next == Step \/ Interrupted \/ Submit \/ \E n \in Posts : Delete(n)

-----------------------------------------------------------------------------
(* A post that is no newer than the checkpoint will not be listed again: it *)
(* is in S3 or in the page being stored, unless the update was interrupted  *)
(* in the middle of a page or had to start from the newest page with more   *)
(* than a page behind (update_s3_if_necessary).                             *)
NothingPassedOver ==
  excuses = {} =>
    \A n \in 1 .. checkpoint :
      \/ n \in s3 \/ n \in deleted
      \/ run # Idle /\ n \in run.page

(* Once people stop posting, each post reaches S3, with these reservations. *)
AllStored ==
  excuses # {} \/ \A n \in 1 .. remote : n \in s3 \cup deleted
=============================================================================
