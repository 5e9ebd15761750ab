-------------------------- MODULE MappedFileHandle --------------------------
(***************************************************************************)
(* mapped_file_handle on Linux: a file with its section and one map of it, *)
(* that others make longer and shorter, in the address space of MapHandle. *)
(*                                                                         *)
(* A step ends where the length of the file is read, so that others may    *)
(* change it before it is used.                                            *)
(***************************************************************************)
EXTENDS MapHandle

CONSTANTS
  File,          \* the handle that is _mh
  StartAt,       \* _offset
  Reservations   \* what reserve() and the constructors are asked for

ASSUME MappedFileAssumption == File \in Handles /\ StartAt \in Nat /\ Reservations \subseteq Nat

VARIABLES
  open,
  _sh,           \* is the section handle valid?
  _reservation,
  stage, asked, length,  \* of a call: where it is, its argument, the length read
  opening        \* the call is the constructor

file_vars == <<open, _sh, _reservation, stage, asked, length, opening>>
allvars == <<vars, file_vars>>

FileTypeOK ==
  /\ open \in BOOLEAN /\ _sh \in BOOLEAN /\ _reservation \in Nat
  /\ stage \in {"idle", "reserve", "map", "resize"}
  /\ asked \in Nat /\ length \in Nat /\ opening \in BOOLEAN

FileInit ==
  /\ Init
  /\ open = FALSE /\ _sh = FALSE /\ _reservation = 0
  /\ stage = "idle" /\ asked = 0 /\ length = 0 /\ opening = FALSE

others == <<pc, want, at, cache, bytes_in_cache, disabled, aborted, lost>>
_mh == map[File]

FileReturn == stage' = "idle" /\ asked' = 0 /\ length' = 0 /\ opening' = FALSE
FileGoto(s, r) == stage' = s /\ asked' = r

\* The first half of _reserve(): reads the length of the file.
Reserve(r, constructor) ==
  LET n == Past(StartAt)
      size == IF r = 0 THEN n ELSE r
  IN  /\ _sh' = TRUE
      /\ IF _mh.valid /\ size = _mh.length
         THEN _reservation' = size /\ FileReturn
         ELSE /\ _reservation' = IF n = 0 THEN r ELSE _reservation
              /\ FileGoto("map", size)
              /\ length' = IF constructor THEN n ELSE 0
              /\ opening' = constructor

\* The second half: closes the map and makes another.  If that fails there is none, and
\* the constructor throws unless the file was empty.
ReserveMap ==
  /\ stage = "map"
  /\ \/ /\ SectionMap(File, Unmapped(space, Cover(_mh)), asked, StartAt)
        /\ _reservation' = asked
        /\ UNCHANGED <<open, _sh>>
     \/ /\ Faults \/ (asked = 0 /\ Past(StartAt) = 0)
             \/ Rooms(Unmapped(space, Cover(_mh)), asked + (StartAt % PageSize), PageSize) = {}
        /\ space' = Unmapped(space, Cover(_mh))
        /\ map' = [map EXCEPT ![File] = Closed]
        /\ open' = (~opening \/ length = 0)
        /\ _sh' = (_sh /\ open')
        /\ _reservation' = IF ~open' THEN 0 ELSE IF opening THEN asked ELSE _reservation
  /\ beyond' = beyond \ {File}
  /\ FileReturn
  /\ UNCHANGED <<file, others>>

\* mapped_file(): for a file that is there, and for one that is new or made empty.
OpenExisting(r) ==
  /\ ~open
  /\ open' = TRUE
  /\ Reserve(r, TRUE)
  /\ UNCHANGED vars

OpenNew(r) ==
  /\ ~open
  /\ open' = TRUE /\ _reservation' = r
  /\ file' = 0
  /\ UNCHANGED <<space, map, beyond, others, _sh, stage, asked, length, opening>>

CallReserve(r) ==
  /\ open /\ stage = "idle"
  /\ Reserve(r, FALSE)
  /\ UNCHANGED <<vars, open>>

\* What is left to reserve by the calls that end with it.
ReserveAfter ==
  /\ stage = "reserve"
  /\ Reserve(asked, FALSE)
  /\ UNCHANGED <<vars, open>>

\* The map and the section are closed.
CloseMaps ==
  /\ space' = Unmapped(space, Cover(_mh))
  /\ Shut(File)
  /\ _sh' = FALSE

\* close(), and release() for what it does to the map.
CloseFile ==
  /\ open /\ stage = "idle"
  /\ CloseMaps
  /\ open' = FALSE /\ _reservation' = 0
  /\ UNCHANGED <<file, others, stage, asked, length, opening>>

\* truncate(): to nothing, without a map, or else the length of the file is read first.
TruncateFile(n) ==
  /\ open /\ stage = "idle"
  /\ \/ /\ n = 0
        /\ CloseMaps
        /\ file' = 0
        /\ UNCHANGED <<_reservation, stage, asked, length>>
     \/ /\ n > 0 /\ ~(_sh /\ _mh.valid)
        /\ file' = n
        /\ _reservation' = Max({n, _reservation})
        /\ FileGoto("reserve", _reservation')
        /\ UNCHANGED <<space, map, beyond, _sh, length>>
     \/ /\ n > 0 /\ _sh /\ _mh.valid
        /\ FileGoto("resize", n)
        /\ length' = file
        /\ UNCHANGED <<space, file, map, beyond, _sh, _reservation>>
  /\ UNCHANGED <<others, open, opening>>

\* The pages that truncate() asks not to be stored, before it makes the file shorter.
Discarded ==
  IF asked >= length THEN {}
  ELSE {_mh.addr + i : i \in (RoundUp(asked, PageSize) \div PageSize) ..
                             ((RoundUp(length, PageSize) \div PageSize) - 1)}

\* The rest of truncate(): the file and the map get their new length, or a new map is
\* needed.
Resize ==
  /\ stage = "resize"
  /\ file' = IF length # asked THEN asked ELSE file
  /\ IF length # asked /\ asked > _reservation
     THEN FileGoto("reserve", asked) /\ length' = 0 /\ UNCHANGED <<map, beyond, opening>>
     ELSE /\ map' = [map EXCEPT ![File].length = asked]
          /\ beyond' = IF asked > _reservation THEN beyond \cup {File} ELSE beyond
          /\ FileReturn
  /\ UNCHANGED <<space, others, open, _sh, _reservation>>

\* Mutant: the reservation does not limit the length.
UpdateFileMapUnlimited ==
  LET n == Past(StartAt)
  IN  /\ open /\ stage = "idle"
      /\ \/ n = 0 /\ CloseMaps /\ UNCHANGED <<stage, asked, length, opening, _reservation>>
         \/ n > 0 /\ ~_sh /\ Reserve(_reservation, FALSE) /\ UNCHANGED <<space, map, beyond>>
         \/ /\ n > 0 /\ _sh
            /\ map' = [map EXCEPT ![File].length = n]
            /\ beyond' = IF _mh.valid THEN beyond ELSE beyond \cup {File}
            /\ UNCHANGED <<space, _sh, _reservation, stage, asked, length, opening>>
      /\ UNCHANGED <<file, others, open>>

\* update_map(), whether or not there is a map.
UpdateFileMap ==
  LET n == Min({Past(StartAt), _reservation})
  IN  /\ open /\ stage = "idle"
      /\ \/ n = 0 /\ CloseMaps /\ UNCHANGED <<stage, asked, length, opening, _reservation>>
         \/ n > 0 /\ ~_sh /\ Reserve(_reservation, FALSE) /\ UNCHANGED <<space, map, beyond>>
         \/ /\ n > 0 /\ _sh
            /\ map' = [map EXCEPT ![File].length = n]
            /\ beyond' = IF _mh.valid THEN beyond ELSE beyond \cup {File}
            /\ UNCHANGED <<space, _sh, _reservation, stage, asked, length, opening>>
      /\ UNCHANGED <<file, others, open>>

\* relink(), where it had to open the file again.
RelinkFile ==
  /\ open /\ stage = "idle" /\ (_sh \/ _mh.valid)
  /\ CloseMaps
  /\ FileGoto("reserve", _reservation)
  /\ UNCHANGED <<file, others, open, _reservation, length, opening>>

-----------------------------------------------------------------------------
FileStep ==
  \/ ReserveAfter \/ ReserveMap \/ CloseFile \/ Resize \/ UpdateFileMap \/ RelinkFile
  \/ \E r \in Reservations : OpenExisting(r) \/ OpenNew(r) \/ CallReserve(r)
  \/ \E n \in Lengths : TruncateFile(n)

FileNext ==
  /\ ~aborted
  /\ \/ FileStep
     \/ (Shared \/ \E h \in Handles \ {File} : Step(h)) /\ UNCHANGED file_vars

FileSpec == FileInit /\ [][FileNext]_allvars

\* truncate() asks not to store pages of its own map only, whatever the length of the file.
DiscardsOwn ==
  [][ stage = "resize" /\ stage' # "resize" =>
        \A p \in Discarded \cap Space : space[p] # Free => p \in Cover(_mh) ]_allvars
=============================================================================
