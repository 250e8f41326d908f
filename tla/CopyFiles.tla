------------------------------ MODULE CopyFiles ------------------------------
(***************************************************************************)
(* Files into and out of a container.  In: the sources of with_copy_to, on *)
(* Linux as ustar archives (copy_to_sources_linux of                       *)
(* src/runners/async_runner.rs, UstarBuilder of                            *)
(* src/core/client/docker_tar.rs), on macOS by path, data through a        *)
(* temporary file (copy_to_sources, write_copy_data_temp).  Out:           *)
(* copy_file_from of src/core/containers/async_container.rs.               *)
(*                                                                         *)
(* Files of the host grow between the look at their size and the reading;  *)
(* tokio's write_all returns while a thread is still writing.              *)
(***************************************************************************)
EXTENDS Naturals, Sequences, FiniteSetsExt

CONSTANTS
  BLOCK_SIZE,   \* block of a tar archive (512)
  LIMIT,        \* DOCKER_RESPONSE_BODY_LIMIT: a file, an archive (64 MiB)
  NAME_MAX,     \* name of a header (99)
  PREFIX_LEN,   \* prefix of a header (155)
  MaxSources,   \* bound of the model: sources of a request
  Sizes,        \* bound of the model: bytes a file may have
  Growth,       \* bound of the model: bytes a file may gain before it is read
  Targets       \* target paths, as the lengths of their components

ASSUME CopyAssumption ==
  /\ BLOCK_SIZE \in Nat \ {0} /\ LIMIT \in Nat /\ NAME_MAX \in Nat /\ PREFIX_LEN \in Nat
  /\ MaxSources \in Nat /\ Sizes \subseteq Nat /\ Growth \subseteq Nat
  /\ Targets \subseteq Seq(Nat \ {0}) \ {<<>>}

(* A target that is not absolute, ends in a slash or a dot, or has an      *)
(* empty component or a parent is "bad"; odd is a source with a symbolic   *)
(* link or a device in it; sizes are those of the files in it.             *)
Sources ==
  {s \in [kind : {"data", "file", "dir"}, flaw : {"none", "bad target", "odd source"},
          sizes : UNION {[1..n -> Sizes] : n \in 0..2}, target : Targets, owner : {0, 1}] :
     /\ s.kind # "dir" => Len(s.sizes) = 1
     /\ s.kind = "data" => s.flaw # "odd source"
     /\ s.flaw # "none" => s.owner = 0}

VARIABLES
  cos,       \* where it runs
  sources,   \* what is to be copied
  next,      \* the source that is being copied
  cpc,       \* where the copying is
  buffers,   \* lengths of the buffers that the source's files were read into
  archive,   \* the archive that will be sent: sizes of its files, its bytes
  temp,      \* the temporary file, its bytes on disk, and whether it has a guard
  placed,    \* what arrived in the container, by source
  chowned,   \* sources whose owner has been set
  out,       \* copy_file_from: where it is
  outTemp,   \* its temporary file exists
  outResult  \* what it returned

copyVars == <<cos, sources, next, cpc, buffers, archive, temp, placed, chowned,
              out, outTemp, outResult>>
outVars == <<out, outTemp, outResult>>

NoTemp == [at |-> "none", bytes |-> 0, guard |-> FALSE]
NoArchive == [sizes |-> <<>>, bytes |-> 0]

CopyInit ==
  /\ cos \in {"linux", "macos"} /\ sources = <<>> /\ next = 1 /\ cpc = "request"
  /\ buffers = {} /\ archive = NoArchive /\ temp = NoTemp /\ placed = <<>> /\ chowned = {}
  /\ out = "idle" /\ outTemp = FALSE /\ outResult = "none"

WithSource ==
  /\ cpc = "request" /\ Len(sources) < MaxSources
  /\ \E s \in Sources : sources' = Append(sources, s)
  /\ UNCHANGED <<cos, next, cpc, buffers, archive, temp, placed, chowned, outVars>>

StartCopy ==
  /\ cpc = "request" /\ sources # <<>> /\ cpc' = "source"
  /\ UNCHANGED <<cos, sources, next, buffers, archive, temp, placed, chowned, outVars>>

Source == sources[next]
SumTo(sizes) ==
  LET T[i \in 0..Len(sizes)] == IF i = 0 THEN 0 ELSE T[i - 1] + sizes[i] IN T
Total(sizes) == SumTo(sizes)[Len(sizes)]
CopyFails == cpc' = "failed"
NextSource ==
  /\ next' = next + 1
  /\ cpc' = IF next = Len(sources) THEN "copied" ELSE "source"
------------------------------------------------------------------------------
(* split_ustar_path: a path that does not fit into the name is cut at a    *)
(* slash, where the name that is left is the longest.  slash is 1 for the  *)
(* path of a directory, which ends in one.                                 *)
PathLen(path, slash) == Total(path) + Len(path) - 1 + slash

SplitUstarPath(path, slash) ==
  LET prefix(i) == PathLen(SubSeq(path, 1, i), 0)
      name(i) == PathLen(path, slash) - prefix(i) - 1
      cuts == {i \in 1 .. Len(path) - 1 :
                 name(i) \in 1..NAME_MAX /\ prefix(i) \in 1..PREFIX_LEN}
  IN CASE PathLen(path, slash) <= NAME_MAX -> [fits |-> TRUE, prefix |-> <<>>, name |-> path]
       [] PathLen(path, slash) > NAME_MAX /\ cuts # {} ->
            [fits |-> TRUE, prefix |-> SubSeq(path, 1, Min(cuts)),
             name |-> SubSeq(path, Min(cuts) + 1, Len(path))]
       [] OTHER -> [fits |-> FALSE, prefix |-> <<>>, name |-> <<>>]

(* Names of the entries: the ancestors, and the target itself. *)
NamesFit(s) ==
  /\ \A i \in 1 .. Len(s.target) - 1 : SplitUstarPath(SubSeq(s.target, 1, i), 1).fits
  /\ SplitUstarPath(s.target, IF s.kind = "dir" THEN 1 ELSE 0).fits
  /\ s.kind = "dir" =>
       \A i \in DOMAIN s.sizes : SplitUstarPath(Append(s.target, 1), 0).fits

(* append_file: header, data and padding.                                  *)
Entry(n) == BLOCK_SIZE + n + ((BLOCK_SIZE - (n % BLOCK_SIZE)) % BLOCK_SIZE)

(* The builder after the ancestors, the directory and the files so far.    *)
Headers(s) == BLOCK_SIZE * (Len(s.target) - 1 + (IF s.kind = "dir" THEN 1 ELSE 0))
Buffered(s, sizes) == Headers(s) + Total([i \in DOMAIN sizes |-> Entry(sizes[i])])

(* read_file_limited: one byte over the limit is enough to see that a file *)
(* is too long, and no more is read into memory.                           *)
ReadFileLimited(n) == IF n <= LIMIT THEN n ELSE LIMIT + 1

(* check_file_size_limit on what the metadata says, read_file_limited on   *)
(* what is there by then; data is in memory already.                       *)
ReadLimited(s, sizes) ==
  s.kind # "data" =>
    \A i \in DOMAIN sizes : s.sizes[i] <= LIMIT /\ ReadFileLimited(sizes[i]) <= LIMIT

(* Mutant of ArchiveFits: the two blocks at the end are not counted. *)
ArchiveFitsOpen(s, sizes) ==
  Headers(s) <= LIMIT /\ \A i \in DOMAIN sizes : Buffered(s, SubSeq(sizes, 1, i)) <= LIMIT

(* append_file asks before, append_directory and finish after.             *)
ArchiveFits(s, sizes) ==
  /\ Headers(s) <= LIMIT
  /\ \A i \in DOMAIN sizes : Buffered(s, SubSeq(sizes, 1, i)) <= LIMIT
  /\ Buffered(s, sizes) + 2 * BLOCK_SIZE <= LIMIT

(* The buffers after the first n files, none of which metadata refused.    *)
BuffersOf(s, sizes, n) ==
  {ReadFileLimited(sizes[i]) : i \in {j \in 1..n : s.kind # "data" /\ s.sizes[j] <= LIMIT}}

(* One turn of the loop of copy_to_sources_linux up to the request.  Where *)
(* it fails, some of the files had been read.                              *)
BuildArchive ==
  /\ cpc = "source" /\ cos = "linux"
  /\ \E grow \in IF Source.kind = "data" THEN {0} ELSE {0} \cup Growth :
       LET now == [i \in DOMAIN Source.sizes |-> Source.sizes[i] + grow] IN
       IF /\ Source.flaw = "none" /\ NamesFit(Source)
          /\ ReadLimited(Source, now) /\ ArchiveFits(Source, now)
       THEN /\ cpc' = "put" /\ buffers' = BuffersOf(Source, now, Len(now))
            /\ archive' = [sizes |-> now, bytes |-> Buffered(Source, now) + 2 * BLOCK_SIZE]
       ELSE /\ CopyFails /\ archive' = archive
            /\ \E n \in 0..Len(now) : buffers' = BuffersOf(Source, now, n)
  /\ UNCHANGED <<cos, sources, next, temp, placed, chowned, outVars>>

(* DockerClient::copy_to, unpacked at the root.                            *)
PutArchive ==
  /\ cpc = "put"
  /\ \/ /\ NextSource /\ placed' = Append(placed, archive.sizes)
        /\ chowned' = chowned \cup {next}
     \/ CopyFails /\ UNCHANGED <<next, placed, chowned>>
  /\ archive' = NoArchive
  /\ UNCHANGED <<cos, sources, buffers, temp, outVars>>
------------------------------------------------------------------------------
(* write_copy_data_temp: open() is awaited while a thread of the runtime's *)
(* pool creates the file.                                                  *)
OpenCopyDataTemp ==
  /\ cpc = "source" /\ cos = "macos" /\ Source.kind = "data"
  /\ cpc' = "open" /\ temp' = [NoTemp EXCEPT !.at = "opening"]
  /\ UNCHANGED <<cos, sources, next, buffers, archive, placed, chowned, outVars>>

(* The thread gets on with it, whether or not anyone still waits.          *)
BackgroundOpen ==
  /\ temp.at = "opening" /\ \E a \in {"there", "refused"} : temp' = [temp EXCEPT !.at = a]
  /\ UNCHANGED <<cos, sources, next, cpc, buffers, archive, placed, chowned, outVars>>

(* Once it is there the guard owns it.  write_all hands the bytes to such  *)
(* a thread, or fails, and the guard removes the file.                     *)
GuardCopyDataTemp ==
  /\ cpc = "open" /\ temp.at # "opening"
  /\ \/ /\ temp.at = "there" /\ cpc' = "copy in" /\ temp' = [temp EXCEPT !.guard = TRUE]
     \/ CopyFails /\ temp' = NoTemp
  /\ UNCHANGED <<cos, sources, next, buffers, archive, placed, chowned, outVars>>

(* The thread writes. *)
BackgroundWrite ==
  /\ temp.guard /\ temp.bytes < Source.sizes[1] /\ cpc \in {"copy in", "chown"}
  /\ temp' = [temp EXCEPT !.bytes = @ + 1]
  /\ UNCHANGED <<cos, sources, next, cpc, buffers, archive, placed, chowned, outVars>>

(* XpcClient::copy_in: the daemon reads the path that it is given.  The    *)
(* guard removes the temporary file when the request fails.                *)
CopyIn ==
  /\ \/ cpc = "copy in" \/ (cpc = "source" /\ cos = "macos" /\ Source.kind # "data")
  /\ \/ /\ cpc' = "chown" /\ temp' = temp
        /\ placed' = Append(placed, IF Source.kind = "data" THEN <<temp.bytes>>
                                    ELSE Source.sizes)
     \/ CopyFails /\ temp' = NoTemp /\ placed' = placed
  /\ UNCHANGED <<cos, sources, next, buffers, archive, chowned, outVars>>

(* chown_after_copy, whose failure is only logged; then the guard goes.    *)
ChownAfterCopy ==
  /\ cpc = "chown" /\ NextSource /\ temp' = NoTemp
  /\ \/ chowned' = chowned \cup {next}
     \/ Source.owner # 0 /\ chowned' = chowned
  /\ UNCHANGED <<cos, sources, buffers, archive, placed, outVars>>

(* The future of start is dropped while it copies: the guard removes its   *)
(* file, if it has been given one by then.                                 *)
DropStart ==
  /\ cpc \in {"source", "put", "open", "copy in", "chown"} /\ cpc' = "dropped"
  /\ temp' = IF temp.guard THEN NoTemp ELSE temp
  /\ UNCHANGED <<cos, sources, next, buffers, archive, placed, chowned, outVars>>
------------------------------------------------------------------------------
copying == <<cos, sources, next, cpc, buffers, archive, temp, placed, chowned>>

(* copy_file_from on Linux: what the archive begins with decides           *)
(* (parse_first_regular_file_from_ustar, classify_archive_404).            *)
CopyFileFromLinux ==
  /\ cos = "linux" /\ cpc = "copied" /\ out = "idle" /\ out' = "done"
  /\ outResult' \in {"file", "IsDirectory", "EmptyArchive", "UnsupportedEntry", "Io",
                     "ContainerPathNotFound", "ContainerNotFound", "not absolute"}
  /\ UNCHANGED <<copying, outTemp>>

(* copy_file_from on macOS: copy_out writes a temporary file, and may have *)
(* begun to when it fails,                                                 *)
CopyOut ==
  /\ cos = "macos" /\ cpc = "copied" /\ out = "idle"
  /\ \/ out' = "reading" /\ outTemp' = TRUE /\ outResult' = outResult
     \/ out' = "done" /\ outTemp' \in BOOLEAN /\ outResult' = "copy_out failed"
  /\ UNCHANGED copying

(* which is read, unless it is a directory, into the target of the caller, *)
ReadOut ==
  /\ out = "reading" /\ out' = "removing"
  /\ outResult' \in {"file", "IsDirectory", "Io"}
  /\ UNCHANGED <<copying, outTemp>>

(* and removed in every case.                                              *)
RemoveCopyOutTemp ==
  /\ out = "removing" /\ out' = "done" /\ outTemp' = FALSE
  /\ UNCHANGED <<copying, outResult>>

DropCopyFrom ==
  /\ out \in {"reading", "removing"} /\ out' = "dropped"
  /\ UNCHANGED <<copying, outTemp, outResult>>

CopyNext ==
  \/ WithSource \/ StartCopy \/ BuildArchive \/ PutArchive \/ OpenCopyDataTemp
  \/ BackgroundOpen \/ GuardCopyDataTemp \/ BackgroundWrite \/ CopyIn \/ ChownAfterCopy
  \/ DropStart
  \/ CopyFileFromLinux \/ CopyOut \/ ReadOut \/ RemoveCopyOutTemp \/ DropCopyFrom

CopySpec == CopyInit /\ [][CopyNext]_copyVars
------------------------------------------------------------------------------
Short(i) == sources[i].kind = "data" /\ placed[i][1] < sources[i].sizes[1]

(* When start gets past the copying, every source is in the container, in  *)
(* the order they were given, with all the bytes it had; on the way only   *)
(* whole sources arrive, under a name that unpacks to the target, and no   *)
(* archive exceeds the limit, nor a buffer it by more than a byte,         *)
(* whatever the files do meanwhile (copy_to_sources_linux,                 *)
(* split_ustar_path, read_file_limited, UstarBuilder::append_file).        *)
(* On macOS the bytes of a data source may be cut short (see DataWhole),   *)
(* and its owner may not be set.  No temporary file outlives its copy      *)
(* (CopyDataTempFile, remove_copy_out_temp), with two exceptions: that of  *)
(* a start() whose future was dropped during open(), before the file had   *)
(* its guard; and that of a copy_file_from whose request failed or whose   *)
(* future was dropped.                                                     *)
CopyDelivered ==
  /\ cpc = "copied" => Len(placed) = Len(sources)
  /\ \A i \in DOMAIN placed :
       /\ cos = "linux" =>
            LET cut == SplitUstarPath(sources[i].target, 0) IN
            /\ sources[i].flaw = "none" /\ cut.prefix \o cut.name = sources[i].target
            /\ PathLen(cut.name, 0) <= NAME_MAX
            /\ cut.prefix = <<>> \/ PathLen(cut.prefix, 0) <= PREFIX_LEN
       /\ Len(placed[i]) = Len(sources[i].sizes)
       /\ Short(i) => cos = "macos"
       /\ \A j \in DOMAIN placed[i] :
            /\ placed[i][j] >= sources[i].sizes[j] \/ Short(i)
            /\ cos = "linux" => placed[i][j] <= LIMIT
  /\ archive.bytes <= LIMIT /\ archive.bytes % BLOCK_SIZE = 0
  /\ cpc = "copied" /\ cos = "linux" => chowned = DOMAIN sources
  /\ \A n \in buffers : n <= LIMIT + 1
  /\ temp.at = "there" => cpc \in IF temp.guard THEN {"copy in", "chown"}
                                  ELSE {"open", "dropped"}
  /\ outTemp => out \in {"reading", "removing", "dropped"} \/ outResult = "copy_out failed"
  /\ outTemp /\ cpc = "copied" => cos = "macos"

(* "CopyDataSource::Data is written to a temporary file, then copied"      *)
(* (copy_to_sources): what the container gets of it is all of it.          *)
DataWhole == \A i \in DOMAIN placed : ~Short(i)
=============================================================================
