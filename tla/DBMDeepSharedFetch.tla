------------------------ MODULE DBMDeepSharedFetch ------------------------
(***************************************************************************)
(* Reads of DBM::Deep that overlap under the shared lock.  FETCH of a key  *)
(* without a value cuts a data sector and writes a bucket although its     *)
(* flock is LOCK_SH, so two of them may run at the same time.  Here such a *)
(* FETCH of an engine in the HEAD, while no transaction runs, is two       *)
(* steps: it finds no value and reads where the next data sector is, then  *)
(* it writes the sector and the bucket.  Its flock is held in between, so  *)
(* every other method of DBMDeepEngine still excludes it as flock() does.  *)
(***************************************************************************)
EXTENDS DBMDeepEngine

CONSTANT NoFetch   \* not inside such a FETCH: a model value, no pair

VARIABLE missing   \* engine -> key it found no value for, sector to be cut

fetchVars == <<vars, missing>>

FetchInit == Init /\ missing = [e \in Engines |-> NoFetch]

\* The sectors that running FETCHes have read as the next one, still uncut.
Awaited ==
  {n \in FreeSectors : \E f \in Engines, k \in Keys : missing[f] = <<k, n>>}

\* lock_shared and get_data_for, then the first read of _request_sector: the
\* head of the free chain, or the end of the file that the lock has read.  The
\* file names one next sector, the same for all who read it.
FetchMiss(e, k) ==
  /\ held[e] = "none" /\ lock_shared(e)
  /\ LayoutSound
  /\ slots = {} /\ transId[e] = HEAD
  /\ \E i \in Buckets : find_md5(k, i) /\ ~HasValue(e, k, i)
  /\ \E n \in FreeSectors :
       /\ Awaited \subseteq {n}
       /\ missing' = [missing EXCEPT ![e] = <<k, n>>]
  /\ held' = [held EXCEPT ![e] = "shared"]
  /\ UNCHANGED <<file, transId, entries>>

\* The Null is written, write_data looks for the bucket again, frees the value
\* it finds there and puts the sector in; then unlock.
FetchStore(e) ==
  /\ missing[e] # NoFetch
  /\ LET k == missing[e][1]
         n == missing[e][2]
     IN  \E i \in Buckets :
           /\ find_md5(k, i)
           /\ sector' = [s \in Sectors |->
                CASE s = get_data_location_for(i, HEAD) -> Free
                  [] s = n /\ s # get_data_location_for(i, HEAD) -> Undef
                  [] OTHER -> sector[s]]
           /\ loc' = [loc EXCEPT ![i][HEAD] = n]
           /\ md5' = [md5 EXCEPT ![i] = k]
  /\ blist' = TRUE
  /\ missing' = [missing EXCEPT ![e] = NoFetch]
  /\ held' = [held EXCEPT ![e] = "none"]
  /\ UNCHANGED <<slots, counter, intact, tag, transId, entries>>

\* While one such FETCH is running another one takes the two steps as well; a
\* process that dies between them has written nothing.
FetchNext == \E e \in Engines :
  \/ \E k \in Keys : missing[e] = NoFetch /\ FetchMiss(e, k)
  \/ FetchStore(e)
  \/ /\ missing[e] = NoFetch
     /\ DataStep(e) \/ begin_work(e) \/ commit(e) \/ rollback(e)
     /\ (\E f \in Engines : missing[f] # NoFetch) => sector' = sector
     /\ UNCHANGED missing
  \/ Exit(e) /\ missing' = [missing EXCEPT ![e] = NoFetch]

FetchSpec == FetchInit /\ [][FetchNext]_fetchVars
=============================================================================
