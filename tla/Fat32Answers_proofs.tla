------------------------- MODULE Fat32Answers_proofs ------------------------
(***************************************************************************)
(* The proof that every answer of the FAT32 reader is the one its volume   *)
(* calls for (AnswersMatchVolume), for every volume, every sector size and *)
(* every request.  Its inductive invariant is WalksChain: a walk stands at *)
(* the place of a chain that its counters say, and has found, listed or    *)
(* delivered exactly what the places before it hold.                       *)
(***************************************************************************)
EXTENDS Fat32_proofs

-----------------------------------------------------------------------------
(***************************************************************************)
(* The walks.                                                              *)
(***************************************************************************)
\* Where the path has led so far: to the directory or the file that is walked.
Reached == Resolution(volume, request.path)[IF mode = "find" THEN component - 1 ELSE Len(request.path)]
Trail == Chain(volume, Reached.first_cluster)

\* How many of its sectors have been seen.
Seen == IF pc = "sector" THEN PlaceOf(volume, hops, sector_index) ELSE PlaceOf(volume, hops + 1, 0)

\* What the walk has done, for each of its purposes, is what the sectors seen
\* call for.
FindInv ==
    /\ component \in 1 .. Len(request.path) /\ request.path[component] \notin Dots
    /\ Reached.kind = "directory"
    /\ Quiet(volume, Trail, Seen) /\ Absent(volume, Trail, request.path[component], Seen)
    /\ visited = <<>> /\ delivered = <<>>
ListInv ==
    /\ request.op = "list" /\ Reached.kind = "directory"
    /\ Quiet(volume, Trail, Seen)
    /\ visited = Listings(volume, Trail)[Seen] /\ delivered = <<>>
ReadInv ==
    /\ request.op = "read" /\ request.path # <<>> /\ Reached.kind = "file"
    /\ visited = <<>> /\ delivered = Full(volume, Trail, Seen)
    /\ remaining + Seen * SECTOR_SIZE = Reached.size
    /\ \A p \in 0 .. Seen - 1 : p \in Places(volume, Trail)

\* A walk is at the place of the chain that its counters say.
WalksChain ==
    pc \in {"sector", "next"} =>
        /\ request \in Requests
        /\ Reached.first_cluster \in Clusters(volume)
        /\ cluster = Trail[hops]
        /\ pc = "next" => sector_index = 0
        /\ mode = "find" => FindInv
        /\ mode = "list" => ListInv
        /\ mode = "read" => ReadInv

Faithful == WalksChain /\ AnswersMatchVolume

\* A call that returns what was promised is answered.
LEMMA FinishAnswers ==
    ASSUME NEW r, Finish(r), volume' = volume,
           LET promised == Promised(volume, request')
           IN  r = promised.result /\ visited' = promised.visited /\ delivered' = promised.delivered
    PROVE  Faithful'
<1>1. pc' = "idle" /\ result' = r
    BY DEF Finish
<1>2. WalksChain'
    BY <1>1 DEF WalksChain
<1>3. Promised(volume', request') = Promised(volume, request')
    OBVIOUS
<1>4. AnswersMatchVolume'
    BY <1>1, <1>3 DEF AnswersMatchVolume, Agrees
<1> QED
    BY <1>2, <1>4 DEF Faithful

\* The same with the outcome spelt out.
LEMMA OutcomeAnswers ==
    ASSUME NEW r, Finish(r), volume' = volume, Promised(volume, request') = Outcome(r, visited', delivered')
    PROVE  Faithful'
<1>1. /\ Outcome(r, visited', delivered').result = r
      /\ Outcome(r, visited', delivered').visited = visited'
      /\ Outcome(r, visited', delivered').delivered = delivered'
    BY DEF Outcome
<1> QED
    BY <1>1, FinishAnswers

\* So is one that fails as promised before it has given its visitor anything.
LEMMA FailureAnswers ==
    ASSUME NEW r \in Errors, Finish(r), volume' = volume, visited' = <<>>, delivered' = <<>>,
           Promised(volume, request') = Failure(r)
    PROVE  Faithful'
<1>1. Promised(volume, request') = Outcome(r, visited', delivered')
    BY DEF Failure
<1> QED
    BY <1>1, OutcomeAnswers

\* An error on the way is the answer.
LEMMA ErrorAnswers ==
    ASSUME Mounted(volume), volume' = volume, request' \in Requests,
           visited' = <<>>, delivered' = <<>>,
           NEW n \in 1 .. Len(request'.path), NEW r \in Errors, Finish(r),
           Resolution(volume, request'.path)[n] = Lead(r, 0, 0)
    PROVE  Faithful'
<1> DEFINE path == request'.path
           R == Resolution(volume, path)
<1>1. path \in Seq(Names) /\ n \in 0 .. Len(path) /\ path # <<>>
    BY RequestAssumption
<1>2. R[n].kind = r /\ R[n] = Lead(r, 0, 0)
    BY DEF Lead
<1>3. R[Len(path)] = R[n]
    BY <1>1, <1>2, ErrorsStay
<1> HIDE DEF R
<1>4. R[Len(path)].kind = r
    BY <1>2, <1>3
<1>5. PromisedList(volume, R[Len(path)]) = Failure(r) /\ PromisedRead(volume, R[Len(path)]) = Failure(r)
    BY <1>4 DEF PromisedList, PromisedRead
<1>6. Promised(volume, request') = Failure(r)
    BY <1>1, <1>5 DEF Promised, R
<1> QED
    BY <1>6, FailureAnswers

\* A walk that begins has seen nothing.
LEMMA NothingSeen ==
    ASSUME NEW v, Mounted(v), NEW chain, NEW name
    PROVE  /\ PlaceOf(v, 0, 0) = 0
           /\ Quiet(v, chain, 0) /\ Absent(v, chain, name, 0)
           /\ Listings(v, chain)[0] = <<>> /\ Full(v, chain, 0) = <<>>
<1>1. PlaceOf(v, 0, 0) = 0
    BY Sizes DEF PlaceOf
<1>2. \A q \in Places(v, chain) : ~ (q < 0)
    BY PlaceBelow
<1>3. Full(v, chain, 0) = <<>>
    BY DEF Full
<1> QED
    BY <1>1, <1>2, <1>3, ListingsIs DEF Quiet, Absent

\* A walk begins where the path has led, or the request is answered with an
\* error.
LEMMA WalkBegins ==
    ASSUME Mounted(volume), volume' = volume, request' \in Requests,
           visited' = <<>>, delivered' = <<>>,
           NEW purpose \in {"find", "list", "read"}, NEW n \in Nat, NEW size \in Nat, NEW at \in Leads,
           at = Resolution(volume, request'.path)[IF purpose = "find" THEN n - 1 ELSE Len(request'.path)],
           purpose = "find" => /\ n \in 1 .. Len(request'.path) /\ request'.path[n] \notin Dots
                               /\ at.kind = "directory",
           purpose = "list" => request'.op = "list" /\ at.kind = "directory",
           purpose = "read" => /\ request'.op = "read" /\ request'.path # <<>>
                               /\ at.kind = "file" /\ at.size = size /\ size # 0,
           Walk(at.first_cluster, purpose, n, size)
    PROVE  Faithful'
<1> DEFINE start == at.first_cluster
           chain == Chain(volume, start)
<1>1. /\ at.first_cluster \in Nat /\ "directory" \notin Errors /\ "file" \notin Errors
      /\ cluster_count(volume) \in Nat
    BY Sizes DEF Leads, Errors
<1>2. is_valid_cluster(start) <=> start \in Clusters(volume)
    BY <1>1 DEF is_valid_cluster, Clusters
<1>3. CASE start \in Clusters(volume)
  <2>1. /\ pc' = "sector" /\ mode' = purpose /\ component' = n /\ cluster' = start
        /\ sector_index' = 0 /\ hops' = 0 /\ remaining' = size
      BY <1>2, <1>3 DEF Walk
  <2>2. Reached' = at
      BY <2>1 DEF Reached
  <2>3. Trail' = chain
      BY <2>2 DEF Trail
  <2>4. Seen' = 0
      BY <2>1, NothingSeen DEF Seen
  <2>5. chain[0] = start
      BY <1>3, ChainIs
  <2> HIDE DEF chain
  <2>6. purpose = "find" => FindInv'
      BY <2>1, <2>2, <2>3, <2>4, NothingSeen DEF FindInv
  <2>7. purpose = "list" => ListInv'
      BY <2>1, <2>2, <2>3, <2>4, NothingSeen DEF ListInv
  <2>8. purpose = "read" => ReadInv'
    <3>1. 0 * SECTOR_SIZE = 0 /\ size + 0 = size /\ 0 .. 0 - 1 = {}
        BY SizeAssumption
    <3> QED
        BY <2>1, <2>2, <2>3, <2>4, <3>1, NothingSeen DEF ReadInv
  <2>9. WalksChain'
      BY <1>3, <2>1, <2>2, <2>3, <2>5, <2>6, <2>7, <2>8 DEF WalksChain
  <2>10. AnswersMatchVolume'
      BY <2>1 DEF AnswersMatchVolume
  <2> QED
      BY <2>9, <2>10 DEF Faithful
<1>4. CASE start \notin Clusters(volume)
  <2>1. Finish("InvalidCluster") /\ "InvalidCluster" \in Errors
      BY <1>2, <1>4 DEF Walk, Errors
  <2>2. CASE purpose = "find"
    <3>1. Resolution(volume, request'.path)[n] = Descend(volume, at, request'.path[n])
        BY <2>2, ResolutionIs, RequestAssumption
    <3>2. Descend(volume, at, request'.path[n]) = Lead("InvalidCluster", 0, 0)
        BY <1>1, <1>4, <2>2 DEF Descend, FindIn
    <3> QED
        BY <2>1, <2>2, <3>1, <3>2, ErrorAnswers
  <2>3. CASE purpose = "list"
    <3>1. Promised(volume, request') = Failure("InvalidCluster")
        BY <1>1, <1>4, <2>3 DEF Promised, PromisedList
    <3> QED
        BY <2>1, <3>1, FailureAnswers
  <2>4. CASE purpose = "read"
    <3>1. Promised(volume, request') = Failure("InvalidCluster")
        BY <1>1, <1>4, <2>4 DEF Promised, PromisedRead
    <3> QED
        BY <2>1, <3>1, FailureAnswers
  <2> QED
      BY <2>2, <2>3, <2>4
<1> QED
    BY <1>3, <1>4

\* The same for a component of the path.
LEMMA LookUpBegins ==
    ASSUME Mounted(volume), volume' = volume, request' \in Requests,
           visited' = <<>>, delivered' = <<>>,
           NEW n \in 1 .. Len(request'.path), NEW at \in Leads, at.kind = "directory",
           at = Resolution(volume, request'.path)[n - 1],
           LookUp(at.first_cluster, n, request'.path)
    PROVE  Faithful'
<1>1. CASE request'.path[n] \in Dots
  <2>1. Resolution(volume, request'.path)[n] = Descend(volume, at, request'.path[n])
      BY ResolutionIs, RequestAssumption
  <2>2. Descend(volume, at, request'.path[n]) = Lead("NotFound", 0, 0)
      BY <1>1 DEF Descend, Errors
  <2>3. Finish("NotFound") /\ "NotFound" \in Errors
      BY <1>1 DEF LookUp, Errors
  <2> QED
      BY <2>1, <2>2, <2>3, ErrorAnswers
<1>2. CASE request'.path[n] \notin Dots
  <2>1. Walk(at.first_cluster, "find", n, 0) /\ n \in Nat
      BY <1>2 DEF LookUp
  <2> QED
      BY <1>2, <2>1, WalkBegins
<1> QED
    BY <1>1, <1>2

\* The entry that was found leads on, or is what was asked for.
LEMMA FoundLeadsOn ==
    ASSUME Mounted(volume), volume' = volume, request' = request, request \in Requests,
           visited' = <<>>, delivered' = <<>>,
           component \in 1 .. Len(request.path),
           NEW entry \in RawEntry, entry.kind \in {"file", "directory"},
           Resolution(volume, request.path)[component] = LeadOf(entry),
           Found(entry)
    PROVE  Faithful'
<1> DEFINE path == request.path
           at == LeadOf(entry)
<1>1. /\ path \in Seq(Names) /\ Len(path) \in Nat /\ path # <<>> /\ component \in Nat
      /\ request.op \in {"list", "read"} /\ component <= Len(path)
    BY RequestAssumption
<1>2. /\ at \in Leads /\ at.kind = entry.kind
      /\ at.first_cluster = entry.first_cluster /\ at.size = entry.size
      /\ entry.size \in Nat /\ entry.kind \notin Errors
    BY DEF LeadOf, Lead, Leads, RawEntry, Errors
<1>3. Resolution(volume, path)[component] = at
    OBVIOUS
<1> HIDE DEF at
<1>4. CASE component = Len(path) /\ request.op = "read"
  <2>1. ReadFile(entry)
      BY <1>4 DEF Found
  <2>2. Promised(volume, request') = PromisedRead(volume, at)
      BY <1>1, <1>3, <1>4 DEF Promised
  <2>3. CASE entry.kind = "directory"
    <3>1. Finish("IsDirectory") /\ "IsDirectory" \in Errors
        BY <2>1, <2>3 DEF ReadFile, Errors
    <3>2. PromisedRead(volume, at) = Failure("IsDirectory")
        BY <1>2, <2>3 DEF PromisedRead
    <3> QED
        BY <2>2, <3>1, <3>2, FailureAnswers
  <2>4. CASE entry.kind # "directory" /\ entry.size = 0
    <3>1. Finish("Ok")
        BY <2>1, <2>4 DEF ReadFile
    <3>2. PromisedRead(volume, at) = Outcome("Ok", <<>>, <<>>)
        BY <1>2, <2>4 DEF PromisedRead
    <3> QED
        BY <2>2, <3>1, <3>2, OutcomeAnswers
  <2>5. CASE entry.kind # "directory" /\ entry.size # 0
    <3>1. Walk(at.first_cluster, "read", 0, entry.size) /\ entry.kind = "file"
        BY <1>2, <2>1, <2>5 DEF ReadFile
    <3> QED
        BY <1>1, <1>2, <1>3, <1>4, <2>5, <3>1, WalkBegins
  <2> QED
      BY <2>3, <2>4, <2>5
<1>5. CASE ~ (component = Len(path) /\ request.op = "read") /\ entry.kind = "file"
  <2>1. Finish("NotDirectory") /\ "NotDirectory" \in Errors
      BY <1>5 DEF Found, Errors
  <2>2. CASE component = Len(path)
    <3>1. Promised(volume, request') = PromisedList(volume, at)
        BY <1>1, <1>3, <1>5, <2>2 DEF Promised
    <3>2. PromisedList(volume, at) = Failure("NotDirectory")
        BY <1>2, <1>5 DEF PromisedList
    <3> QED
        BY <2>1, <3>1, <3>2, FailureAnswers
  <2>3. CASE component # Len(path)
    <3>1. component + 1 \in 1 .. Len(path) /\ (component + 1) - 1 = component
        BY <1>1, <2>3
    <3>2. Resolution(volume, path)[component + 1] = Descend(volume, at, path[component + 1])
        BY <1>1, <1>3, <3>1, ResolutionIs
    <3>3. Descend(volume, at, path[component + 1]) = Lead("NotDirectory", 0, 0)
        BY <1>2, <1>5 DEF Descend
    <3> QED
        BY <2>1, <3>1, <3>2, <3>3, ErrorAnswers
  <2> QED
      BY <2>2, <2>3
<1>6. CASE /\ ~ (component = Len(path) /\ request.op = "read")
           /\ entry.kind # "file" /\ component < Len(path)
  <2>1. LookUp(at.first_cluster, component + 1, request'.path)
      BY <1>2, <1>6 DEF Found
  <2>2. /\ component + 1 \in 1 .. Len(request'.path) /\ (component + 1) - 1 = component
        /\ at.kind = "directory"
      BY <1>1, <1>2, <1>6
  <2> QED
      BY <1>2, <1>3, <2>1, <2>2, LookUpBegins
<1>7. CASE /\ ~ (component = Len(path) /\ request.op = "read")
           /\ entry.kind # "file" /\ ~ (component < Len(path))
  <2>1. Walk(at.first_cluster, "list", 0, 0)
      BY <1>2, <1>7 DEF Found
  <2>2. component = Len(path) /\ request.op = "list" /\ at.kind = "directory"
      BY <1>1, <1>2, <1>7
  <2> QED
      BY <1>2, <1>3, <2>1, <2>2, WalkBegins
<1> QED
    BY <1>4, <1>5, <1>6, <1>7

\* A call begins at the root.
LEMMA CallLeadsOn ==
    ASSUME IInv, NEW r \in Requests, Call(r)
    PROVE  Faithful'
<1> DEFINE at == Lead("directory", volume.root_cluster, 0)
<1>1. /\ Mounted(volume) /\ volume' = volume /\ request' = r /\ r.path \in Seq(Names)
      /\ visited' = <<>> /\ delivered' = <<>> /\ r.op \in {"list", "read"}
    BY RequestAssumption DEF IInv, Call, Mounted
<1>2. /\ at \in Leads /\ at.kind = "directory" /\ at.first_cluster = volume.root_cluster
      /\ at.kind \notin Errors
    BY <1>1, VolumeAssumption DEF Lead, Leads, Mounted, Errors
<1>3. Resolution(volume, r.path)[0] = at
    BY <1>1, ResolutionIs
<1> HIDE DEF at
<1>4. CASE r.path # <<>>
  <2>1. LookUp(at.first_cluster, 1, request'.path)
      BY <1>1, <1>2, <1>4 DEF Call
  <2>2. 1 \in 1 .. Len(request'.path) /\ 1 - 1 = 0
      BY <1>1, <1>4
  <2> QED
      BY <1>1, <1>2, <1>3, <2>1, <2>2, LookUpBegins
<1>5. CASE r.path = <<>> /\ r.op = "list"
  <2>1. Walk(at.first_cluster, "list", 0, 0)
      BY <1>2, <1>5 DEF Call
  <2>2. Len(request'.path) = 0
      BY <1>1, <1>5
  <2> QED
      BY <1>1, <1>2, <1>3, <1>5, <2>1, <2>2, WalkBegins
<1>6. CASE r.path = <<>> /\ r.op # "list"
  <2>1. Finish("NotFound") /\ "NotFound" \in Errors
      BY <1>6 DEF Call, Errors
  <2>2. Promised(volume, request') = Failure("NotFound")
      BY <1>1, <1>6 DEF Promised
  <2> QED
      BY <1>1, <2>1, <2>2, FailureAnswers
<1> QED
    BY <1>4, <1>5, <1>6

\* What a walk has done, by its purpose.
LEMMA UnderWay ==
    ASSUME WalksChain, pc \in {"sector", "next"}
    PROVE  /\ mode = "find" => FindInv
           /\ mode = "list" => ListInv
           /\ mode = "read" => ReadInv
  BY DEF WalksChain

\* Where a walk is.
LEMMA Here ==
    ASSUME IInv, WalksChain, pc \in {"sector", "next"}
    PROVE  /\ Mounted(volume) /\ request \in Requests /\ request.path \in Seq(Names)
           /\ request.op \in {"list", "read"}
           /\ Reached \in Leads /\ Reached.first_cluster \in Clusters(volume)
           /\ hops \in 0 .. cluster_count(volume) /\ cluster = Trail[hops]
           /\ cluster \in Clusters(volume) /\ cluster \in Nat /\ is_valid_cluster(cluster)
           /\ mode \in {"find", "list", "read"} /\ remaining \in Nat
           /\ mode = "find" => component \in 1 .. Len(request.path)
           /\ mode = "read" => remaining > 0
           /\ sector_index \in Nat /\ sector_index < volume.sectors_per_cluster
           /\ Trail = Chain(volume, Reached.first_cluster) /\ Traced(volume, Trail)
<1>1. /\ Mounted(volume) /\ request \in Requests /\ hops \in Nat /\ hops <= cluster_count(volume)
      /\ cluster = Trail[hops] /\ cluster \in Nat /\ is_valid_cluster(cluster)
      /\ mode \in {"find", "list", "read"} /\ remaining \in Nat
      /\ (mode = "read") = (remaining > 0) /\ (mode = "find") = (component > 0)
      /\ component \in 0 .. Len(request.path)
      /\ Reached.first_cluster \in Clusters(volume)
      /\ sector_index \in Nat /\ sector_index < volume.sectors_per_cluster
    BY DEF IInv, TypeOK, WalksChain, Mounted
<1>2. request.path \in Seq(Names) /\ request.op \in {"list", "read"} /\ Len(request.path) \in Nat
    BY <1>1, RequestAssumption
<1>3. cluster_count(volume) \in Nat
    BY <1>1, Sizes
<1>4. cluster \in Clusters(volume) /\ hops \in 0 .. cluster_count(volume)
    BY <1>1, <1>3 DEF is_valid_cluster, Clusters
<1>5. mode = "find" => component \in 1 .. Len(request.path)
    BY <1>1, <1>2
<1>6. (IF mode = "find" THEN component - 1 ELSE Len(request.path)) \in 0 .. Len(request.path)
    BY <1>2, <1>5
<1>7. Reached \in Leads
    BY <1>1, <1>2, <1>6, ResolutionIs DEF Reached
<1>8. Trail = Chain(volume, Reached.first_cluster)
    BY DEF Trail
<1>9. Traced(volume, Trail)
    BY <1>1, <1>8 DEF Traced
<1> QED
    BY <1>1, <1>2, <1>4, <1>5, <1>7, <1>8, <1>9

\* The sector that is read is the one at the place the walk has come to.
LEMMA SectorHere ==
    ASSUME IInv, WalksChain, pc = "sector"
    PROVE  /\ Seen \in Places(volume, Trail) /\ Seen \in 0 .. Extent(volume) - 1
           /\ Seen \in Nat /\ Seen + 1 \in 0 .. Extent(volume)
           /\ DataError(cluster, sector_index) = "None"
           /\ cluster_to_sector(cluster, sector_index) = SectorAt(volume, Trail, Seen)
           /\ volume.entries[cluster_to_sector(cluster, sector_index)] = Raws(volume, Trail, Seen)
           /\ Raws(volume, Trail, Seen) \in Seq(RawEntry)
<1> DEFINE start == Reached.first_cluster
           p == PlaceOf(volume, hops, sector_index)
<1>1. /\ Mounted(volume) /\ start \in Clusters(volume) /\ hops \in 0 .. cluster_count(volume)
      /\ cluster = Trail[hops] /\ cluster \in Clusters(volume) /\ cluster \in Nat
      /\ is_valid_cluster(cluster)
      /\ sector_index \in Nat /\ sector_index < volume.sectors_per_cluster
      /\ Trail = Chain(volume, start) /\ Traced(volume, Trail)
    BY Here
<1>2. Seen = p /\ Trail = Chain(volume, start)
    BY <1>1 DEF Seen
<1>3. 0 \notin Clusters(volume) /\ Extent(volume) \in Nat
    BY <1>1, Sizes
<1>4. /\ p \in 0 .. Extent(volume) - 1
      /\ Chain(volume, start)[hops] # 0 => p \in Places(volume, Chain(volume, start))
      /\ SectorAt(volume, Chain(volume, start), p)
            = first_data_sector(volume)
              + ((Chain(volume, start)[hops] - 2) * volume.sectors_per_cluster) + sector_index
    BY <1>1, PlaceIs
<1> HIDE DEF start, p
<1>5. p \in Places(volume, Trail)
    BY <1>1, <1>2, <1>3, <1>4
<1>6. SectorAt(volume, Trail, p)
        = first_data_sector(volume) + ((cluster - 2) * volume.sectors_per_cluster) + sector_index
    BY <1>1, <1>2, <1>4
<1>7. cluster_to_sector(cluster, sector_index) = SectorAt(volume, Trail, p)
    BY <1>6 DEF cluster_to_sector
<1>8. DataError(cluster, sector_index) = "None"
    BY <1>1, DataReadsSucceed DEF Mounted
<1>9. p \in Nat /\ p + 1 \in 0 .. Extent(volume)
    BY <1>3, <1>4
<1>10. Raws(volume, Trail, p) \in Seq(RawEntry)
    BY <1>1, <1>5, RawsIs
<1>11. volume.entries[SectorAt(volume, Trail, p)] = Raws(volume, Trail, p)
    BY DEF Raws
<1> QED
    BY <1>2, <1>4, <1>5, <1>7, <1>8, <1>9, <1>10, <1>11

\* A sector further.
LEMMA OneFurther ==
    ASSUME IInv, WalksChain, pc = "sector", volume' = volume, request' = request, NextSector
    PROVE  /\ Reached' = Reached /\ Trail' = Trail /\ Seen' = Seen + 1
           /\ pc' \in {"sector", "next"} /\ (pc' = "next" => sector_index' = 0)
           /\ cluster' = Trail'[hops'] /\ mode' = mode /\ component' = component
<1>1. /\ Mounted(volume) /\ Reached.first_cluster \in Clusters(volume)
      /\ hops \in 0 .. cluster_count(volume) /\ cluster = Trail[hops]
      /\ sector_index \in Nat /\ sector_index < volume.sectors_per_cluster
    BY Here
<1>2. mode' = mode /\ component' = component /\ cluster' = cluster /\ hops' = hops
    BY DEF NextSector
<1>3. Reached' = Reached
    BY <1>2 DEF Reached
<1>4. Trail' = Trail
    BY <1>3 DEF Trail
<1>5. /\ PlaceOf(volume, hops, sector_index) + 1 = PlaceOf(volume, hops, sector_index + 1)
      /\ PlaceOf(volume, hops, volume.sectors_per_cluster) = PlaceOf(volume, hops + 1, 0)
    BY <1>1, PlaceIs
<1>6. Seen = PlaceOf(volume, hops, sector_index)
    BY DEF Seen
<1>7. CASE sector_index + 1 < volume.sectors_per_cluster
  <2>1. sector_index' = sector_index + 1 /\ pc' = "sector"
      BY <1>7 DEF NextSector
  <2>2. Seen' = PlaceOf(volume, hops, sector_index + 1)
      BY <1>2, <2>1 DEF Seen
  <2> QED
      BY <1>1, <1>2, <1>3, <1>4, <1>5, <1>6, <2>1, <2>2
<1>8. CASE ~ (sector_index + 1 < volume.sectors_per_cluster)
  <2>1. sector_index' = 0 /\ pc' = "next"
      BY <1>8 DEF NextSector
  <2>2. Seen' = PlaceOf(volume, hops + 1, 0)
      BY <1>2, <2>1 DEF Seen
  <2>3. sector_index + 1 = volume.sectors_per_cluster
      BY <1>1, <1>8, Sizes
  <2> QED
      BY <1>1, <1>2, <1>3, <1>4, <1>5, <1>6, <2>1, <2>2, <2>3
<1> QED
    BY <1>7, <1>8

\* What the call will answer, by the purpose of the walk.
LEMMA Purposes ==
    ASSUME IInv, WalksChain, pc \in {"sector", "next"}
    PROVE  /\ mode = "find" => Resolution(volume, request.path)[component]
                                 = FindAlong(volume, Trail, request.path[component])
           /\ mode = "list" => Promised(volume, request) = ListAlong(volume, Trail)
           /\ mode = "read" => Promised(volume, request) = ReadAlong(volume, Trail, Reached.size)
<1>1. /\ Mounted(volume) /\ request.path \in Seq(Names) /\ Len(request.path) \in Nat
      /\ Reached \in Leads /\ Reached.first_cluster \in Clusters(volume)
      /\ mode = "find" => component \in 1 .. Len(request.path)
      /\ "directory" \notin Errors /\ "file" \notin Errors
    BY Here DEF Errors
<1>2. CASE mode = "find"
  <2>1. FindInv /\ Reached = Resolution(volume, request.path)[component - 1]
      BY <1>2 DEF WalksChain, Reached
  <2>2. Resolution(volume, request.path)[component] = Descend(volume, Reached, request.path[component])
      BY <1>1, <1>2, <2>1, ResolutionIs
  <2>3. Descend(volume, Reached, request.path[component])
          = FindAlong(volume, Trail, request.path[component])
      BY <1>1, <2>1 DEF Descend, FindIn, FindInv, Trail
  <2> QED
      BY <1>2, <2>2, <2>3
<1>3. CASE mode = "list"
  <2>1. ListInv /\ Reached = Resolution(volume, request.path)[Len(request.path)]
      BY <1>3 DEF WalksChain, Reached
  <2>2. request.op = "list" /\ Reached.kind = "directory"
      BY <2>1 DEF ListInv
  <2>3. Promised(volume, request) = PromisedList(volume, Reached)
      BY <1>1, <2>1, <2>2 DEF Promised
  <2>4. PromisedList(volume, Reached) = ListAlong(volume, Trail)
      BY <1>1, <2>2 DEF PromisedList, Trail
  <2> QED
      BY <1>3, <2>3, <2>4
<1>4. CASE mode = "read"
  <2>1. ReadInv /\ Reached = Resolution(volume, request.path)[Len(request.path)]
      BY <1>4 DEF WalksChain, Reached
  <2>2. Reached.size # 0
    <3>1. remaining \in Nat /\ remaining > 0
        BY <1>4, Here
    <3>2. Seen \in Nat
      <4>1. hops \in Nat /\ sector_index \in Nat /\ volume.sectors_per_cluster \in Nat
          BY Here, <1>1, Sizes
      <4> QED
          BY <4>1 DEF Seen, PlaceOf
    <3>3. Seen * SECTOR_SIZE \in Nat
        BY <3>2, SizeAssumption
    <3> QED
        BY <2>1, <3>1, <3>3 DEF ReadInv
  <2>3. request.op = "read" /\ request.path # <<>> /\ Reached.kind = "file"
      BY <2>1 DEF ReadInv
  <2>4. Promised(volume, request) = PromisedRead(volume, Reached)
      BY <1>1, <2>1, <2>3 DEF Promised
  <2>5. PromisedRead(volume, Reached) = ReadAlong(volume, Trail, Reached.size)
      BY <1>1, <2>2, <2>3 DEF PromisedRead, Trail
  <2> QED
      BY <1>4, <2>4, <2>5
<1> QED
    BY <1>2, <1>3, <1>4

-----------------------------------------------------------------------------
(***************************************************************************)
(* A sector of a directory.                                                *)
(***************************************************************************)
\* The scan stops at marks and, on a search, at entries of the name.
LEMMA StopsAre ==
    ASSUME NEW raws \in Seq(RawEntry)
    PROVE  /\ mode = "find" => Stops(raws) = Marks(raws) \cup Named(raws, request.path[component])
           /\ mode = "list" => Stops(raws) = Marks(raws)
           /\ \A i \in Marks(raws) : raws[i].kind = "end"
  BY DEF Stops, Marks, Named, Wanted, Listed

\* No stop in the sector: the walk goes on.
LEMMA PassesOn ==
    ASSUME IInv, WalksChain, pc = "sector", mode \in {"find", "list"},
           volume' = volume, request' = request, delivered' = delivered,
           NEW raws, raws = Raws(volume, Trail, Seen), Stops(raws) = {}, Show(raws), NextSector
    PROVE  Faithful'
<1> DEFINE name == request.path[component]
<1>1. Mounted(volume) /\ request \in Requests /\ Reached.first_cluster \in Clusters(volume)
    BY Here
<1>2. /\ Seen \in Places(volume, Trail) /\ Seen \in 0 .. Extent(volume) - 1 /\ Seen \in Nat
      /\ raws \in Seq(RawEntry)
    BY SectorHere
<1>3. /\ Reached' = Reached /\ Trail' = Trail /\ Seen' = Seen + 1
      /\ pc' \in {"sector", "next"} /\ (pc' = "next" => sector_index' = 0)
      /\ cluster' = Trail'[hops'] /\ mode' = mode /\ component' = component
    BY OneFurther
<1>4. Marks(raws) = {} /\ (mode = "find" => Named(raws, name) = {})
    BY <1>2, StopsAre
<1>5. Quiet(volume, Trail, Seen)
  <2>1. (mode = "find" => FindInv) /\ (mode = "list" => ListInv)
      BY UnderWay
  <2> QED
      BY <2>1 DEF FindInv, ListInv
<1>6. Quiet(volume, Trail, Seen + 1)
    BY <1>1, <1>2, <1>4, <1>5, QuietGrows, Zenon
<1>7. ASSUME mode = "find" PROVE FindInv'
  <2>1. FindInv
      BY <1>7, UnderWay
  <2>2. Absent(volume, Trail, name, Seen + 1)
      BY <1>1, <1>2, <1>4, <1>7, <2>1, QuietGrows DEF FindInv
  <2>3. visited' = visited
      BY <1>7 DEF Show
  <2> QED
      BY <1>3, <1>6, <2>1, <2>2, <2>3 DEF FindInv
<1>8. ASSUME mode = "list" PROVE ListInv'
  <2>1. ListInv
      BY <1>8, UnderWay
  <2>2. Front(raws) = raws
      BY <1>4 DEF Front
  <2>3. Seen \in Scanned(volume, Trail)
      BY <1>1, <1>2, <1>5, ScannedIs
  <2>4. Listings(volume, Trail)[Seen + 1] = Listings(volume, Trail)[Seen] \o Shown(raws)
      BY <1>1, <1>2, <2>2, <2>3, ListingsIs
  <2>5. visited' = visited \o Shown(raws)
      BY <1>8 DEF Show
  <2>6. visited' = Listings(volume, Trail)[Seen + 1]
      BY <2>1, <2>4, <2>5 DEF ListInv
  <2> QED
      BY <1>3, <1>6, <2>1, <2>6 DEF ListInv
<1>9. WalksChain'
    BY <1>1, <1>3, <1>7, <1>8 DEF WalksChain
<1>10. AnswersMatchVolume'
    BY <1>3 DEF AnswersMatchVolume
<1> QED
    BY <1>9, <1>10 DEF Faithful

\* The mark ends a listing, and nothing is missing from it.
LEMMA MarkEndsList ==
    ASSUME IInv, WalksChain, pc = "sector", mode = "list",
           volume' = volume, request' = request, delivered' = delivered,
           NEW raws, raws = Raws(volume, Trail, Seen),
           NEW i \in Stops(raws), \A j \in Stops(raws) : i <= j,
           Show(SubSeq(raws, 1, i - 1)), Finish("Ok")
    PROVE  Faithful'
<1>1. Mounted(volume) /\ ListInv
    BY Here, UnderWay
<1>2. /\ Seen \in Places(volume, Trail) /\ Seen \in 0 .. Extent(volume) - 1
      /\ Seen + 1 \in 0 .. Extent(volume) /\ Seen \in Nat
      /\ raws \in Seq(RawEntry)
    BY SectorHere
<1>3. Stops(raws) = Marks(raws)
    BY <1>2, StopsAre
<1>4. i \in Marks(raws) /\ \A j \in Marks(raws) : i <= j
    BY <1>3
<1>5. Quiet(volume, Trail, Seen) /\ visited = Listings(volume, Trail)[Seen] /\ delivered = <<>>
    BY <1>1 DEF ListInv
<1>6. visited' = visited \o Shown(SubSeq(raws, 1, i - 1))
    BY DEF Show
<1>7. Promised(volume, request') = ListAlong(volume, Trail)
    BY Purposes
<1>8. Front(raws) = SubSeq(raws, 1, i - 1)
  <2>1. Marks(raws) \subseteq Nat
      BY <1>2, FrontIs
  <2>2. i = First(Marks(raws))
      BY <1>4, <2>1, FirstIs
  <2> QED
      BY <1>4, <2>2, Zenon DEF Front
<1>9. /\ Seen \in Scanned(volume, Trail) /\ Exhausted(volume, Trail) = "Ok"
      /\ \A q \in Scanned(volume, Trail) : q <= Seen
    BY <1>1, <1>2, <1>4, <1>5, ScannedIs
<1>10. Listings(volume, Trail)[Seen + 1] = visited'
    BY <1>1, <1>2, <1>5, <1>6, <1>8, <1>9, ListingsIs
<1>11. Listings(volume, Trail)[Extent(volume)] = Listings(volume, Trail)[Seen + 1]
  <2>1. \A q \in Scanned(volume, Trail) : q < Seen + 1
    <3>1. \A q \in Scanned(volume, Trail) : q \in Nat
        BY <1>1, PlaceBelow DEF Scanned
    <3> QED
        BY <1>2, <1>9, <3>1
  <2> QED
      BY <1>1, <1>2, <2>1, ListingStays
<1>12. ListAlong(volume, Trail) = Outcome("Ok", visited', <<>>)
    BY <1>9, <1>10, <1>11 DEF ListAlong
<1> QED
    BY <1>5, <1>7, <1>12, OutcomeAnswers

\* A search has seen nothing of the name, and stops at the first stop.
LEMMA SearchHere ==
    ASSUME IInv, WalksChain, pc = "sector", mode = "find",
           NEW raws, raws = Raws(volume, Trail, Seen),
           NEW i \in Stops(raws), \A j \in Stops(raws) : i <= j
    PROVE  /\ Searched(volume, Trail, request.path[component], Seen)
           /\ FirstStop(raws, request.path[component], i)
           /\ visited = <<>> /\ delivered = <<>>
<1> DEFINE name == request.path[component]
<1>1. Mounted(volume) /\ Traced(volume, Trail)
    BY Here
<1>2. Seen \in Places(volume, Trail) /\ raws \in Seq(RawEntry)
    BY SectorHere, Zenon
<1>3. FindInv
    BY UnderWay
<1>4. /\ Quiet(volume, Trail, Seen) /\ Absent(volume, Trail, name, Seen)
      /\ visited = <<>> /\ delivered = <<>>
    BY <1>3, Zenon DEF FindInv
<1>5. Stops(raws) = Marks(raws) \cup Named(raws, name)
    BY <1>2, StopsAre
<1> HIDE DEF name
<1>6. Searched(volume, Trail, name, Seen)
    BY <1>1, <1>2, <1>4, Zenon DEF Searched
<1>7. FirstStop(raws, name, i)
    BY <1>5, Zenon DEF FirstStop
<1> QED
    BY <1>4, <1>6, <1>7, Zenon DEF name

\* The mark ends a search in vain.
LEMMA MarkEndsFind ==
    ASSUME IInv, WalksChain, pc = "sector", mode = "find",
           volume' = volume, request' = request, visited' = visited, delivered' = delivered,
           NEW raws, raws = Raws(volume, Trail, Seen),
           NEW i \in Stops(raws), \A j \in Stops(raws) : i <= j,
           raws[i].kind = "end", Finish("NotFound")
    PROVE  Faithful'
<1>1. Mounted(volume) /\ request \in Requests /\ component \in 1 .. Len(request.path)
    BY Here
<1>2. FindAlong(volume, Trail, request.path[component]) = Lead("NotFound", 0, 0)
    BY SearchHere, SearchEnds
<1>3. Resolution(volume, request.path)[component] = Lead("NotFound", 0, 0)
    BY <1>2, Purposes, Zenon
<1>4. "NotFound" \in Errors
    BY DEF Errors
<1>5. visited' = <<>> /\ delivered' = <<>>
    BY SearchHere
<1> QED
    BY <1>1, <1>3, <1>4, <1>5, ErrorAnswers

\* The first entry of the name is what the search was for.
LEMMA MatchEndsFind ==
    ASSUME IInv, WalksChain, pc = "sector", mode = "find",
           volume' = volume, request' = request, visited' = visited, delivered' = delivered,
           NEW raws, raws = Raws(volume, Trail, Seen),
           NEW i \in Stops(raws), \A j \in Stops(raws) : i <= j,
           raws[i].kind # "end", Found(raws[i])
    PROVE  Faithful'
<1>1. Mounted(volume) /\ request \in Requests /\ component \in 1 .. Len(request.path)
    BY Here
<1>2. visited' = <<>> /\ delivered' = <<>>
    BY SearchHere
<1>3. /\ FindAlong(volume, Trail, request.path[component]) = LeadOf(raws[i])
      /\ raws[i] \in RawEntry /\ raws[i].kind \in {"file", "directory"}
    BY SearchHere, SearchEnds
<1>4. Resolution(volume, request.path)[component] = LeadOf(raws[i])
    BY <1>3, Purposes, Zenon
<1> QED
    BY <1>1, <1>2, <1>3, <1>4, FoundLeadsOn

\* Scanning a directory's sector keeps the walk faithful.
LEMMA VisitSectorFaithful ==
    ASSUME IInv, WalksChain, VisitSector
    PROVE  Faithful'
<1> DEFINE raws == Raws(volume, Trail, Seen)
<1>1. /\ pc = "sector" /\ mode \in {"find", "list"} /\ volume' = volume /\ request' = request
      /\ delivered' = delivered
    BY DEF VisitSector
<1>2. /\ DataError(cluster, sector_index) = "None" /\ raws \in Seq(RawEntry)
      /\ volume.entries[cluster_to_sector(cluster, sector_index)] = raws
    BY <1>1, SectorHere, Zenon
<1>3. \/ Stops(raws) = {} /\ Show(raws) /\ NextSector
      \/ \E i \in Stops(raws) :
            /\ \A j \in Stops(raws) : i <= j
            /\ Show(SubSeq(raws, 1, i - 1))
            /\ IF raws[i].kind = "end" THEN Finish(AtEnd) ELSE Found(raws[i])
    BY <1>2 DEF VisitSector
<1>4. CASE Stops(raws) = {} /\ Show(raws) /\ NextSector
    BY <1>1, <1>4, PassesOn
<1>5. ASSUME NEW i \in Stops(raws), \A j \in Stops(raws) : i <= j, Show(SubSeq(raws, 1, i - 1)),
             IF raws[i].kind = "end" THEN Finish(AtEnd) ELSE Found(raws[i])
      PROVE  Faithful'
  <2>1. CASE mode = "list"
    <3>1. raws[i].kind = "end"
        BY <1>2, <2>1, StopsAre
    <3>2. Finish("Ok")
        BY <1>5, <2>1, <3>1 DEF AtEnd
    <3> QED
        BY <1>1, <1>5, <2>1, <3>2, MarkEndsList
  <2>2. CASE mode = "find" /\ raws[i].kind = "end"
    <3>1. Finish("NotFound") /\ visited' = visited
        BY <1>5, <2>2 DEF AtEnd, Show
    <3> QED
        BY <1>1, <1>5, <2>2, <3>1, MarkEndsFind
  <2>3. CASE mode = "find" /\ raws[i].kind # "end"
    <3>1. Found(raws[i]) /\ visited' = visited
        BY <1>5, <2>3 DEF Show
    <3> QED
        BY <1>1, <1>5, <2>3, <3>1, MatchEndsFind
  <2> QED
      BY <1>1, <2>1, <2>2, <2>3
<1> HIDE DEF raws
<1> QED
    BY <1>3, <1>4, <1>5, Zenon

-----------------------------------------------------------------------------
(***************************************************************************)
(* A sector of a file.                                                     *)
(***************************************************************************)
\* Reading a file's sector keeps the walk faithful.
LEMMA ReadSectorFaithful ==
    ASSUME IInv, WalksChain, ReadSector
    PROVE  Faithful'
<1> DEFINE p == Seen
           size == Reached.size
           s == SECTOR_SIZE
           product == p * s
           sector == SectorAt(volume, Trail, Seen)
<1>1. pc = "sector" /\ mode = "read" /\ volume' = volume /\ request' = request /\ visited' = visited
    BY DEF ReadSector
<1>2. /\ Mounted(volume) /\ request \in Requests /\ Reached.first_cluster \in Clusters(volume)
      /\ ReadInv /\ remaining \in Nat /\ remaining > 0
    BY <1>1, Here, UnderWay
<1>3. /\ p \in Places(volume, Trail) /\ p \in Nat
      /\ DataError(cluster, sector_index) = "None"
      /\ cluster_to_sector(cluster, sector_index) = sector
    BY <1>1, SectorHere
<1>4. /\ delivered' = Append(delivered, <<sector, Chunk>>)
      /\ \/ remaining = Chunk /\ Finish("Ok")
         \/ remaining # Chunk /\ remaining' = remaining - Chunk /\ NextSector
    BY <1>3 DEF ReadSector
<1>5. /\ visited = <<>> /\ delivered = Full(volume, Trail, p) /\ remaining + product = size
      /\ request.op = "read" /\ request.path # <<>> /\ Reached.kind = "file"
      /\ \A q \in 0 .. p - 1 : q \in Places(volume, Trail)
    BY <1>2 DEF ReadInv
<1>6. /\ s \in Nat /\ s > 0 /\ product \in Nat /\ (p + 1) * s = product + s
    BY <1>3, SizeAssumption, OneMore
<1>7. CASE remaining = Chunk /\ Finish("Ok")
  <2>1. remaining <= s
    <3>1. remaining = IF remaining < s THEN remaining ELSE s
        BY <1>7 DEF Chunk
    <3> HIDE DEF s
    <3> QED
        BY <1>2, <1>6, <3>1
  <2>2. Needed(size) = p + 1
      BY <1>2, <1>3, <1>5, <2>1, NeededIs
  <2>3. size - (Needed(size) - 1) * SECTOR_SIZE = remaining
    <3>1. Needed(size) - 1 = p
        BY <1>3, <2>2
    <3>2. size - product = remaining
      <4> HIDE DEF product, size
      <4> QED
          BY <1>2, <1>5, <1>6
    <3> QED
        BY <3>1, <3>2
  <2>4. delivered' = Longer(Full(volume, Trail, p), p, <<sector, remaining>>)
    <3>1. delivered' = Append(Full(volume, Trail, p), <<sector, remaining>>)
        BY <1>4, <1>5, <1>7
    <3> HIDE DEF p, sector
    <3> QED
        BY <1>3, <3>1, AppendIs, Zenon
  <2>5. Chunks(volume, Trail, size) = delivered'
    <3>1. ASSUME NEW i \in 1 .. p + 1
          PROVE  <<SectorAt(volume, Trail, i - 1), IF i < p + 1 THEN SECTOR_SIZE ELSE remaining>>
                   = IF i < p + 1 THEN Full(volume, Trail, p)[i] ELSE <<sector, remaining>>
      <4>1. CASE i < p + 1
        <5>1. i \in 1 .. p
            BY <1>3, <4>1
        <5> QED
            BY <4>1, <5>1 DEF Full
      <4>2. CASE ~ (i < p + 1)
        <5>1. i - 1 = p
            BY <1>3, <4>2
        <5> QED
            BY <4>2, <5>1
      <4> QED
          BY <4>1, <4>2
    <3>2. Chunks(volume, Trail, size)
            = [i \in 1 .. p + 1 |->
                 <<SectorAt(volume, Trail, i - 1), IF i < p + 1 THEN SECTOR_SIZE ELSE remaining>>]
        BY <2>2, <2>3 DEF Chunks
    <3> HIDE DEF p, sector, size
    <3> QED
        BY <2>4, <3>1, <3>2 DEF Longer
  <2>6. ReadAlong(volume, Trail, size) = Outcome("Ok", <<>>, delivered')
    <3>1. Needed(size) - 1 = p
        BY <1>3, <2>2
    <3> QED
        BY <1>3, <2>5, <3>1 DEF ReadAlong
  <2>7. Promised(volume, request') = Outcome("Ok", <<>>, delivered')
      BY <1>1, <2>6, Purposes
  <2> QED
      BY <1>1, <1>5, <1>7, <2>7, OutcomeAnswers
<1>8. CASE remaining # Chunk /\ remaining' = remaining - Chunk /\ NextSector
  <2>1. Chunk = s /\ remaining' = remaining - s /\ remaining > s
      BY <1>2, <1>6, <1>8 DEF Chunk
  <2>2. /\ Reached' = Reached /\ Trail' = Trail /\ Seen' = p + 1
        /\ pc' \in {"sector", "next"} /\ (pc' = "next" => sector_index' = 0)
        /\ cluster' = Trail'[hops'] /\ mode' = mode /\ component' = component
      BY <1>1, <1>8, OneFurther
  <2>3. remaining' + ((p + 1) * s) = size
    <3> HIDE DEF product, size, s
    <3> QED
        BY <1>2, <1>5, <1>6, <2>1
  <2>4. delivered' = Full(volume, Trail, p + 1)
    <3>1. delivered' = Append(Full(volume, Trail, p), <<sector, s>>)
        BY <1>4, <1>5, <2>1
    <3>2. ASSUME NEW i \in 1 .. p + 1
          PROVE  <<SectorAt(volume, Trail, i - 1), s>>
                   = IF i < p + 1 THEN Full(volume, Trail, p)[i] ELSE <<sector, s>>
      <4>1. CASE i < p + 1
        <5>1. i \in 1 .. p
            BY <1>3, <4>1
        <5> QED
            BY <4>1, <5>1 DEF Full
      <4>2. CASE ~ (i < p + 1)
        <5>1. i - 1 = p
            BY <1>3, <4>2
        <5> QED
            BY <4>2, <5>1
      <4> QED
          BY <4>1, <4>2
    <3>3. delivered' = Longer(Full(volume, Trail, p), p, <<sector, s>>)
      <4> HIDE DEF p, sector, s
      <4> QED
          BY <1>3, <3>1, AppendIs, Zenon
    <3> HIDE DEF p, sector
    <3>4. Full(volume, Trail, p + 1) = [i \in 1 .. p + 1 |-> <<SectorAt(volume, Trail, i - 1), s>>]
        BY DEF Full
    <3> HIDE DEF s
    <3> QED
        BY <3>2, <3>3, <3>4 DEF Longer
  <2>5. \A q \in 0 .. (p + 1) - 1 : q \in Places(volume, Trail)
    <3> SUFFICES ASSUME NEW q \in 0 .. (p + 1) - 1, q # p PROVE q \in Places(volume, Trail)
        BY <1>3
    <3> HIDE DEF p
    <3>1. q \in 0 .. p - 1
        BY <1>3
    <3> QED
        BY <1>5, <3>1
  <2>6. ReadInv'
      BY <1>1, <1>5, <2>2, <2>3, <2>4, <2>5 DEF ReadInv
  <2>7. WalksChain'
      BY <1>1, <1>2, <2>2, <2>6 DEF WalksChain
  <2>8. AnswersMatchVolume'
      BY <2>2 DEF AnswersMatchVolume
  <2> QED
      BY <2>7, <2>8 DEF Faithful
<1> QED
    BY <1>4, <1>7, <1>8

-----------------------------------------------------------------------------
(***************************************************************************)
(* The next cluster.                                                       *)
(***************************************************************************)
\* The sectors of a chain of which the first n places are all there are.
LEMMA SectorsAre ==
    ASSUME NEW v, Mounted(v), NEW chain, NEW n \in Nat,
           \A p \in 0 .. n - 1 : p \in Places(v, chain), \A p \in Places(v, chain) : p < n
    PROVE  Sectors(v, chain) = Full(v, chain, n)
<1>1. Places(v, chain) = 0 .. n - 1
  <2>1. \A p \in Places(v, chain) : p \in Nat
      BY PlaceBelow
  <2>2. ASSUME NEW p \in Places(v, chain) PROVE p \in 0 .. n - 1
    <3>1. p \in Nat /\ p < n
        BY <2>1
    <3> QED
        BY <3>1
  <2> QED
      BY <2>2
<1>2. {p + 1 : p \in 0 .. n - 1} = 1 .. n
  <2>1. ASSUME NEW i \in 1 .. n PROVE i \in {p + 1 : p \in 0 .. n - 1}
    <3>1. i - 1 \in 0 .. n - 1 /\ i = (i - 1) + 1
        OBVIOUS
    <3> QED
        BY <3>1
  <2> QED
      BY <2>1
<1> QED
    BY <1>1, <1>2 DEF Sectors, Full

\* A walk that has seen the whole chain answers by how the chain ends.
LEMMA ChainEndsWalk ==
    ASSUME IInv, WalksChain, pc = "next",
           volume' = volume, request' = request, visited' = visited, delivered' = delivered,
           \A p \in Places(volume, Trail) : p < Seen,
           Ending(volume, Trail) \in {"Ok", "CorruptFat", "DirectoryLoop"},
           Finish(IF Ending(volume, Trail) = "Ok" THEN AtEnd ELSE Ending(volume, Trail))
    PROVE  Faithful'
<1> DEFINE e == Ending(volume, Trail)
<1>1. /\ Mounted(volume) /\ request \in Requests
      /\ Traced(volume, Trail)
      /\ mode \in {"find", "list", "read"} /\ hops \in 0 .. cluster_count(volume)
      /\ mode = "find" => component \in 1 .. Len(request.path)
      /\ mode = "read" => remaining \in Nat /\ remaining > 0
    BY Here
<1>2. Seen \in 0 .. Extent(volume) /\ Seen \in Nat
  <2> DEFINE s == volume.sectors_per_cluster
  <2>1. /\ s \in Nat \ {0} /\ cluster_count(volume) \in Nat
        /\ Extent(volume) = (cluster_count(volume) + 1) * s /\ Extent(volume) \in Nat
      BY <1>1, Sizes
  <2>2. (hops + 1) * s <= (cluster_count(volume) + 1) * s /\ (hops + 1) * s \in Nat
      BY <1>1, <2>1, ProductGrows
  <2>3. Seen = (hops + 1) * s
      BY <1>1, <2>1, <2>2 DEF Seen, PlaceOf
  <2> HIDE DEF s
  <2> QED
      BY <2>1, <2>2, <2>3
<1>3. e \in {"Ok", "CorruptFat", "DirectoryLoop"} /\ \A p \in Places(volume, Trail) : p < Seen
    OBVIOUS
<1>4. Finish(IF e = "Ok" THEN AtEnd ELSE e)
    OBVIOUS
<1> HIDE DEF e
<1>5. CASE mode = "find"
  <2> DEFINE name == request.path[component]
  <2>1. /\ Quiet(volume, Trail, Seen) /\ Absent(volume, Trail, name, Seen)
        /\ visited' = <<>> /\ delivered' = <<>>
    <3>1. FindInv
        BY <1>5, UnderWay
    <3> QED
        BY <3>1 DEF FindInv
  <2>2. Exhausted(volume, Trail) = e
      BY <1>1, <1>3, <2>1, NoMarkAtAll DEF e
  <2>3. ASSUME NEW q \in Scanned(volume, Trail)
        PROVE  Named(Front(Raws(volume, Trail, q)), name) = {}
    <3>1. q \in Places(volume, Trail)
        BY DEF Scanned
    <3>2. Named(Raws(volume, Trail, q), name) = {}
        BY <1>3, <2>1, <3>1 DEF Absent
    <3>3. Raws(volume, Trail, q) \in Seq(RawEntry)
        BY <1>1, <3>1, RawsIs
    <3> QED
        BY <3>2, <3>3, FrontIs
  <2> DEFINE r == IF e = "Ok" THEN "NotFound" ELSE e
  <2>4. FindAlong(volume, Trail, name) = Lead(r, 0, 0)
      BY <2>2, <2>3, NothingFound, Zenon
  <2>5. Resolution(volume, request.path)[component] = Lead(r, 0, 0)
      BY <1>5, <2>4, Purposes
  <2>6. r \in Errors /\ Finish(r)
      BY <1>3, <1>4, <1>5 DEF Errors, AtEnd
  <2> HIDE DEF r
  <2> QED
      BY <1>1, <1>5, <2>1, <2>5, <2>6, ErrorAnswers
<1>6. CASE mode = "list"
  <2>1. Quiet(volume, Trail, Seen) /\ visited = Listings(volume, Trail)[Seen] /\ delivered = <<>>
    <3>1. ListInv
        BY <1>6, UnderWay
    <3> QED
        BY <3>1 DEF ListInv
  <2>2. Exhausted(volume, Trail) = e
      BY <1>1, <1>3, <2>1, NoMarkAtAll DEF e
  <2>3. Promised(volume, request') = ListAlong(volume, Trail)
      BY <1>6, Purposes
  <2>4. \A q \in Scanned(volume, Trail) : q < Seen
      BY <1>3 DEF Scanned
  <2>5. Listings(volume, Trail)[Extent(volume)] = visited
      BY <1>1, <1>2, <2>1, <2>4, ListingStays
  <2>6. ListAlong(volume, Trail) = Outcome(e, visited', delivered')
      BY <2>1, <2>2, <2>5 DEF ListAlong
  <2>7. Finish(e)
      BY <1>4, <1>6 DEF AtEnd
  <2> QED
      BY <2>3, <2>6, <2>7, OutcomeAnswers
<1>7. CASE mode = "read"
  <2> DEFINE size == Reached.size
             r == IF e = "Ok" THEN "TruncatedFile" ELSE e
  <2>1. remaining \in Nat /\ remaining > 0 /\ remaining + (Seen * SECTOR_SIZE) = size
    <3>1. ReadInv
        BY <1>7, UnderWay
    <3> QED
        BY <1>1, <1>7, <3>1 DEF ReadInv
  <2>2. Needed(size) - 1 \in Nat /\ Seen <= Needed(size) - 1
    <3> HIDE DEF size
    <3> QED
        BY <1>2, <2>1, NeededIs
  <2>3. Needed(size) - 1 \notin Places(volume, Trail)
    <3> DEFINE n == Needed(size) - 1
    <3>1. n \in Nat /\ Seen <= n
        BY <2>2
    <3> HIDE DEF n
    <3>2. ASSUME n \in Places(volume, Trail) PROVE FALSE
      <4>1. n < Seen
          BY <1>3, <3>2, Zenon
      <4> QED
          BY <1>2, <3>1, <4>1
    <3> QED
        BY <3>2 DEF n
  <2>4. Sectors(volume, Trail) = delivered' /\ visited' = <<>>
    <3>1. /\ visited = <<>> /\ delivered = Full(volume, Trail, Seen)
          /\ \A p \in 0 .. Seen - 1 : p \in Places(volume, Trail)
        BY <1>7, UnderWay DEF ReadInv
    <3> QED
        BY <1>1, <1>2, <1>3, <3>1, SectorsAre
  <2>5. Promised(volume, request') = Outcome(r, visited', delivered')
    <3>1. ReadAlong(volume, Trail, size) = Outcome(r, <<>>, Sectors(volume, Trail))
        BY <2>3 DEF ReadAlong, e
    <3> QED
        BY <1>7, <2>4, <3>1, Purposes
  <2>6. Finish(r)
      BY <1>4, <1>7 DEF AtEnd
  <2> HIDE DEF r
  <2> QED
      BY <2>5, <2>6, OutcomeAnswers
<1> QED
    BY <1>1, <1>5, <1>6, <1>7

\* Following the FAT keeps the walk faithful.
LEMMA NextClusterFaithful ==
    ASSUME IInv, WalksChain, NextCluster
    PROVE  Faithful'
<1> DEFINE start == Reached.first_cluster
           next == FatEntry(cluster)
           e == Ending(volume, Trail)
<1>1. /\ pc = "next" /\ volume' = volume /\ request' = request
      /\ visited' = visited /\ delivered' = delivered
    BY DEF NextCluster, given
<1>2. /\ Mounted(volume) /\ request \in Requests /\ start \in Clusters(volume)
      /\ Trail = Chain(volume, start) /\ hops \in 0 .. cluster_count(volume)
      /\ cluster = Trail[hops] /\ cluster \in Clusters(volume)
      /\ mode \in {"find", "list", "read"}
    BY <1>1, Here
<1>3. /\ cluster_count(volume) \in Nat /\ 0 \notin Clusters(volume)
      /\ Clusters(volume) \subseteq Nat
    BY <1>2, Sizes
<1>4. Trail[hops + 1] = Follower(volume, cluster) /\ Seen = PlaceOf(volume, hops + 1, 0)
    BY <1>1, <1>2, ChainIs DEF Seen
<1>5. /\ FatError(cluster) = IF Covered(volume, cluster) THEN "None" ELSE "CorruptFat"
      /\ next = Link(volume, cluster)
      /\ Covered(volume, cluster) => next \in Nat
    BY <1>2, LinkIs DEF Mounted
<1> HIDE DEF start, next, e
<1>6. ASSUME Trail[hops + 1] = 0,
             Finish(IF Covered(volume, cluster) /\ next >= FAT32_EOC THEN AtEnd ELSE "CorruptFat")
      PROVE  Faithful'
  <2>1. /\ e = IF Covered(volume, cluster) /\ next >= FAT32_EOC THEN "Ok" ELSE "CorruptFat"
        /\ \A p \in Places(volume, Trail) : p < Seen
      BY <1>2, <1>4, <1>5, <1>6, EndsAt DEF e
  <2>2. e \in {"Ok", "CorruptFat", "DirectoryLoop"}
      BY <2>1
  <2>3. Finish(IF e = "Ok" THEN AtEnd ELSE e)
      BY <1>6, <2>1
  <2> QED
      BY <1>1, <2>1, <2>2, <2>3, ChainEndsWalk DEF e
<1>7. CASE ~ Covered(volume, cluster)
  <2>1. Finish("CorruptFat")
      BY <1>5, <1>7 DEF NextCluster
  <2>2. Trail[hops + 1] = 0
      BY <1>4, <1>7 DEF Follower
  <2> QED
      BY <1>6, <1>7, <2>1, <2>2
<1>8. CASE Covered(volume, cluster) /\ next >= FAT32_EOC
  <2>1. Finish(AtEnd)
      BY <1>5, <1>8 DEF NextCluster, next
  <2>2. ~ (next < FAT32_BAD_CLUSTER)
      BY <1>5, <1>8, SizeAssumption DEF FAT32_BAD_CLUSTER, FAT32_EOC
  <2>3. Trail[hops + 1] = 0
      BY <1>4, <1>5, <2>2 DEF Follower
  <2> QED
      BY <1>6, <1>8, <2>1, <2>3
<1>9. CASE /\ Covered(volume, cluster) /\ ~ (next >= FAT32_EOC)
           /\ next = FAT32_BAD_CLUSTER \/ ~ is_valid_cluster(next)
  <2>1. Finish("CorruptFat")
      BY <1>5, <1>9 DEF NextCluster, next
  <2>2. ~ (next \in Clusters(volume) /\ next < FAT32_BAD_CLUSTER)
      BY <1>3, <1>5, <1>9, SizeAssumption DEF FAT32_BAD_CLUSTER, is_valid_cluster, Clusters
  <2>3. Trail[hops + 1] = 0
      BY <1>4, <1>5, <2>2 DEF Follower
  <2> QED
      BY <1>6, <1>9, <2>1, <2>3
<1>10. ASSUME Covered(volume, cluster), ~ (next >= FAT32_EOC), next # FAT32_BAD_CLUSTER,
              is_valid_cluster(next)
       PROVE  Faithful'
  <2>1. next \in Clusters(volume) /\ next < FAT32_BAD_CLUSTER
      BY <1>3, <1>5, <1>10, SizeAssumption
      DEF FAT32_BAD_CLUSTER, FAT32_EOC, is_valid_cluster, Clusters
  <2>2. Trail[hops + 1] = next
      BY <1>2, <1>4, <1>5, <1>10, <2>1 DEF Follower
  <2>3. CASE hops = cluster_count(volume)
    <3>1. Finish("DirectoryLoop")
        BY <1>5, <1>10, <2>3 DEF NextCluster, next
    <3>2. Chain(volume, start)[cluster_count(volume) + 1] # 0
        BY <1>2, <1>3, <2>1, <2>2, <2>3
    <3>3. e = "DirectoryLoop" /\ \A p \in Places(volume, Trail) : p < Seen
        BY <1>2, <1>4, <2>3, <3>2, GoesRound DEF e
    <3> QED
        BY <1>1, <3>1, <3>3, ChainEndsWalk DEF e
  <2>4. CASE hops # cluster_count(volume)
    <3>1. /\ cluster' = next /\ hops' = hops + 1 /\ pc' = "sector"
          /\ mode' = mode /\ component' = component /\ sector_index' = sector_index
          /\ remaining' = remaining
        BY <1>5, <1>10, <2>4 DEF NextCluster, CountedHop, next
    <3>2. sector_index = 0
        BY <1>1 DEF WalksChain
    <3>3. Reached' = Reached
        BY <1>1, <3>1 DEF Reached
    <3>4. Trail' = Trail
        BY <1>1, <3>3 DEF Trail
    <3>5. Seen' = Seen
        BY <1>1, <1>4, <3>1, <3>2 DEF Seen
    <3>6. ASSUME mode = "find" PROVE FindInv'
      <4>1. FindInv
          BY <1>1, <3>6, UnderWay
      <4> QED
          BY <1>1, <3>1, <3>3, <3>4, <3>5, <4>1 DEF FindInv
    <3>7. ASSUME mode = "list" PROVE ListInv'
      <4>1. ListInv
          BY <1>1, <3>7, UnderWay
      <4> QED
          BY <1>1, <3>1, <3>3, <3>4, <3>5, <4>1 DEF ListInv
    <3>8. ASSUME mode = "read" PROVE ReadInv'
      <4>1. ReadInv
          BY <1>1, <3>8, UnderWay, Zenon
      <4> QED
          BY <1>1, <3>1, <3>3, <3>4, <3>5, <4>1 DEF ReadInv
    <3>9. WalksChain'
        BY <1>1, <1>2, <2>2, <3>1, <3>3, <3>4, <3>6, <3>7, <3>8 DEF WalksChain, start
    <3>10. AnswersMatchVolume'
        BY <3>1 DEF AnswersMatchVolume
    <3> QED
        BY <3>9, <3>10 DEF Faithful
  <2> QED
      BY <2>3, <2>4
<1> QED
    BY <1>7, <1>8, <1>9, <1>10

-----------------------------------------------------------------------------
\* Before the first call the kernel has asked for nothing but the mount.
AInv == IInv /\ Faithful /\ (pc = "boot" => request.op = "mount")

\* Nothing the shell asks for is a mount.
LEMMA MountIsNoRequest ==
    ASSUME NEW r \in Requests
    PROVE  r.op # "mount"
  BY RequestAssumption

\* The inductive invariant of the reader: at every sector and FAT entry, what
\* visit_directory, find_in_directory and read_file have done so far is what
\* the part of the chain behind them calls for.
THEOREM WalksFollowChains == Spec => []AInv
<1>1. Init => AInv
  <2> SUFFICES ASSUME Init PROVE AInv
      OBVIOUS
  <2>1. IInv
      BY DEF Init, IInv, TypeOK, ReadsInsideVolume, Answers
  <2> QED
      BY <2>1 DEF Init, AInv, Faithful, WalksChain, AnswersMatchVolume
<1>2. AInv /\ IInv' /\ [Next]_vars => AInv'
  <2> SUFFICES ASSUME AInv, IInv', [Next]_vars PROVE AInv'
      OBVIOUS
  <2>1. IInv /\ WalksChain /\ AnswersMatchVolume
      BY Zenon DEF AInv, Faithful
  <2>2. CASE Mount
    <3>1. pc' \in {"idle", "failed"} /\ request' = request /\ request.op = "mount"
        BY <2>2 DEF Mount, AInv
    <3>2. request' \notin Requests
        BY <3>1, MountIsNoRequest
    <3> QED
        BY <3>1, <3>2 DEF AInv, Faithful, WalksChain, AnswersMatchVolume
  <2>3. ASSUME NEW r \in Requests, Call(r) PROVE AInv'
    <3>1. Faithful'
        BY <2>1, <2>3, CallLeadsOn
    <3>2. pc' # "boot"
        BY <2>3 DEF Call, LookUp, Walk, Finish
    <3> QED
        BY <3>1, <3>2 DEF AInv
  <2>4. CASE VisitSector
    <3>1. Faithful'
        BY <2>1, <2>4, VisitSectorFaithful
    <3>2. pc' # "boot"
        BY <2>4, Zenon DEF VisitSector, Found, ReadFile, LookUp, Walk, Finish, NextSector
    <3> QED
        BY <3>1, <3>2 DEF AInv
  <2>5. CASE ReadSector
    <3>1. Faithful'
        BY <2>1, <2>5, ReadSectorFaithful
    <3>2. pc' # "boot"
        BY <2>5 DEF ReadSector, Finish, NextSector
    <3> QED
        BY <3>1, <3>2 DEF AInv
  <2>6. CASE NextCluster
    <3>1. Faithful'
        BY <2>1, <2>6, NextClusterFaithful
    <3>2. pc' # "boot"
        BY <2>6 DEF NextCluster, Finish
    <3> QED
        BY <3>1, <3>2 DEF AInv
  <2>7. CASE UNCHANGED vars
    <3>1. /\ UNCHANGED <<volume, pc, mode, request, component, cluster, sector_index, hops>>
          /\ UNCHANGED <<remaining, result, visited, delivered>>
        BY <2>7 DEF vars, walk, given
    <3>2. Reached' = Reached /\ Trail' = Trail /\ Seen' = Seen
      <4>1. Reached' = Reached
          BY <3>1 DEF Reached
      <4>2. Trail' = Trail
          BY <3>1, <4>1 DEF Trail
      <4>3. Seen' = Seen
          BY <3>1 DEF Seen
      <4> QED
          BY <4>1, <4>2, <4>3
    <3>3. (FindInv => FindInv') /\ (ListInv => ListInv') /\ (ReadInv => ReadInv')
      <4>1. FindInv => FindInv'
          BY <3>1, <3>2 DEF FindInv
      <4>2. ListInv => ListInv'
          BY <3>1, <3>2 DEF ListInv
      <4>3. ReadInv => ReadInv'
          BY <3>1, <3>2 DEF ReadInv
      <4> QED
          BY <4>1, <4>2, <4>3
    <3>4. WalksChain'
        BY <2>1, <3>1, <3>2, <3>3 DEF WalksChain
    <3>5. AnswersMatchVolume'
        BY <2>1, <3>1 DEF AnswersMatchVolume, Agrees
    <3> QED
        BY <3>1, <3>4, <3>5 DEF AInv, Faithful
  <2> QED
      BY <2>2, <2>3, <2>4, <2>5, <2>6, <2>7 DEF Next, Step
<1> QED
    BY <1>1, <1>2, Invariance, PTL DEF Spec

\* On every volume, every call of list_dir and read_file answers what the
\* volume holds: the walk over sectors and FAT entries finds, lists and
\* delivers what the chains and directories are as a whole, and reports a
\* damaged volume for the damage it has.
THEOREM AnswersMatch == Spec => []AnswersMatchVolume
<1>1. AInv => AnswersMatchVolume
    BY DEF AInv, Faithful
<1> QED
    BY <1>1, WalksFollowChains, PTL
=============================================================================
