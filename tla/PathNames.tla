------------------------------ MODULE PathNames ------------------------------
(***************************************************************************)
(* Names of src/Utility: the parts of a path name, the forms of a host     *)
(* name, and the names that the system is asked for.  This is the Linux    *)
(* build, where '/' alone separates the elements of a path.                *)
(***************************************************************************)
EXTENDS TextEdits

CONSTANTS
  GivenNames,        \* path and host names to begin with
  DemangledNames,    \* names that the library of C++ makes
  SystemHosts,       \* names that the host may have
  SystemPaths,       \* directories that the process may work in
  UserName,          \* the name of the user
  NameLengths        \* lengths of the buffers that names are asked for with

VARIABLES
  named,             \* the name that is worked on
  system             \* the system's host name and working directory

nameVars == <<named, system>>

Slash == 47
Dot   == 46
Dash_ == 45
ColonChar == 58
Open  == 60
Close == 62

-----------------------------------------------------------------------------
(* Path names.                                                             *)

PathMetaChars           == {Slash}
IsPathMetaChar(char)    == char \in PathMetaChars
IsPathNameSlash(char)   == char = Slash
PathNameSlashCanonical  == Slash

\* Runs of slashes become one.
CanonicalizePathNameSlashes(path) ==
  MultipleCharsToOneChar(path, {c \in ToSet(path) : IsPathNameSlash(c)}, PathNameSlashCanonical)

GetFileNamePortion(path) ==
  SubSeq(path, Max({0} \cup {i \in DOMAIN path : path[i] = Slash}) + 1, Len(path))

\* The directory keeps its slash only if it is the only character.
GetDirNameLength(path) ==
  LET length == Len(path) - Len(GetFileNamePortion(path))
  IN IF length < 2 THEN length
     ELSE IF path[length] \in {Slash, 92} THEN length - 1 ELSE length

GetDirNamePortion(path) == SubSeq(path, 1, GetDirNameLength(path))

GetExtension_Bug(path) ==
  LET length == Len(path)
      breaks == {i \in 1 .. length - 1 : path[i] = Dot \/ IsPathMetaChar(path[i])}
      at     == Max(breaks)
  IN IF length = 0 \/ Last(path) = Dot \/ breaks = {} THEN <<>>
     ELSE IF path[at] # Dot THEN <<>> ELSE SubSeq(path, at + 1, length)

\* The search goes back from the last character but one, and does not look at
\* the first one.  For a path of one character it reads the one in front of the
\* path, of which nothing depends: whatever stands there, there is no extension.
GetExtension(path) ==
  LET length == Len(path)
      breaks == {i \in 2 .. length - 1 : path[i] = Dot \/ IsPathMetaChar(path[i])}
      at     == Max(breaks)
  IN IF length = 0 \/ Last(path) = Dot \/ breaks = {} THEN <<>>
     ELSE IF path[at] # Dot \/ IsPathMetaChar(path[at - 1]) THEN <<>>
     ELSE SubSeq(path, at + 1, length)

-----------------------------------------------------------------------------
(* Host names.                                                             *)

WhiteSpace == {Space} \cup 9 .. 13
IsAlnum(char) == char \in (48 .. 57) \cup (65 .. 90) \cup (97 .. 122)

\* The name is cut at the first character that host names do not have.
ConvertHostNameToCanonical(host) ==
  LET plain == LowerCase(MultipleCharsToOneChar(Trim(host, {Dot} \cup WhiteSpace), {Dot}, Dot))
      other == {i \in DOMAIN plain : ~IsAlnum(plain[i]) /\ plain[i] \notin {Dash_, Dot}}
  IN SubSeq(plain, 1, Min({Len(plain) + 1} \cup other) - 1)

ConvertHostNameToShort(host) ==
  LET canonical == ConvertHostNameToCanonical(host)
      dots      == {i \in DOMAIN canonical : canonical[i] = Dot}
  IN SubSeq(canonical, 1, Min({Len(canonical) + 1} \cup dots) - 1)

-----------------------------------------------------------------------------
(* Names of C++.                                                           *)

\* The '>' from the index on, less the '<'.
NestingDepth(name, i) ==
  Cardinality({k \in i .. Len(name) : name[k] = Close}) -
    Cardinality({k \in i .. Len(name) : name[k] = Open})

\* The arguments of a template at the end are left out, and so is what is in
\* front of the last colon or space before them.  The search for the start of the
\* arguments does not look at the first character; a name where it finds none,
\* such as operator->, is returned as it is.  The name > alone is not searched at
\* all: the arguments start where it does, and nothing is left of it.
DemangledCppNameToBasic(name) ==
  LET starts == IF name = <<Close>> THEN {1}
                ELSE {i \in 2 .. Len(name) : NestingDepth(name, i) = 0}
      plain  == IF Last(name) = Close THEN SubSeq(name, 1, Max(starts) - 1) ELSE name
      breaks == {i \in DOMAIN plain : plain[i] \in {ColonChar, Space}}
  IN IF name = <<>> THEN <<>>
     ELSE IF Last(name) = Close /\ starts = {} THEN name
     ELSE SubSeq(plain, Max({0} \cup breaks) + 1, Len(plain))

\* A name that the library cannot demangle stays as it is.
DemangleCppName ==
  /\ \E demangled \in DemangledNames, status_code \in {-2, 0} :
       named' = IF status_code = 0 THEN demangled ELSE named
  /\ UNCHANGED system

-----------------------------------------------------------------------------
(* What the system is asked for.  The library refuses a buffer that the    *)
(* name does not fit into, and an exception leaves the caller's name alone *)
(* but where gethostname() has put the start of the name in its buffer.    *)

Fits(name, length) == Len(name) < length

GetHostName ==
  /\ \E length \in NameLengths :
       IF Fits(system.host, length) THEN named' = system.host
       ELSE named' \in {named, SubSeq(system.host, 1, length)}
  /\ UNCHANGED system

GetHostNameShort ==
  /\ named' = ConvertHostNameToShort(system.host)
  /\ UNCHANGED system

GetHostNameCanonical ==
  /\ named' = ConvertHostNameToCanonical(system.host)
  /\ UNCHANGED system

GetCurrentPath ==
  /\ \E length \in NameLengths :
       named' = IF Fits(system.path, length) THEN system.path ELSE named
  /\ UNCHANGED system

\* The user may have no entry in the system's list.  The length is one less than
\* the buffer's.
GetCurrentUserName ==
  /\ \E length \in NameLengths, has_entry \in BOOLEAN :
       named' = IF has_entry /\ Fits(UserName, length + 1) THEN UserName ELSE named
  /\ UNCHANGED system

\* The system may refuse the change.
SetHostName ==
  /\ \E host \in SystemHosts : system' = [system EXCEPT !.host = host]
  /\ UNCHANGED named

SetCurrentPath ==
  /\ \E path \in SystemPaths : system' = [system EXCEPT !.path = path]
  /\ UNCHANGED named

-----------------------------------------------------------------------------
NameInit ==
  /\ named \in GivenNames
  /\ system \in [host : SystemHosts, path : SystemPaths]

TakePart ==
  /\ named' \in {CanonicalizePathNameSlashes(named), GetFileNamePortion(named),
                  GetDirNamePortion(named), GetExtension(named),
                  ConvertHostNameToCanonical(named), ConvertHostNameToShort(named),
                  DemangledCppNameToBasic(named)}
  /\ UNCHANGED system

NameNext ==
  \/ TakePart
  \/ GetHostName \/ GetHostNameShort \/ GetHostNameCanonical \/ SetHostName
  \/ GetCurrentPath \/ SetCurrentPath
  \/ GetCurrentUserName
  \/ DemangleCppName

-----------------------------------------------------------------------------
(* Properties.                                                             *)

PathPartsFit ==
  LET path == CanonicalizePathNameSlashes(named)
      dir  == GetDirNamePortion(path)
      file == GetFileNamePortion(path)
      ext  == GetExtension(path)
  IN /\ CanonicalizePathNameSlashes(path) = path
     /\ path = CASE dir = <<>>      -> file
                 [] dir = <<Slash>> -> dir \o file
                 [] OTHER           -> dir \o <<Slash>> \o file
     /\ GetFileNamePortion(dir) # <<>> \/ dir \in {<<>>, <<Slash>>}
     /\ ext # <<>> /\ file # <<>> =>
          \E base \in 1 .. Len(file) - Len(ext) - 1 :
            file = SubSeq(file, 1, base) \o <<Dot>> \o ext /\ Dot \notin ToSet(ext)
     /\ file = <<>> /\ ext # <<>> => Last(path) = Slash /\ Last(ext) = Slash

HostFormsFit ==
  LET canonical == ConvertHostNameToCanonical(named)
      short     == ConvertHostNameToShort(named)
      again     == ConvertHostNameToCanonical(canonical)
  IN /\ \A i \in DOMAIN canonical : ToLower(canonical[i]) = canonical[i]
     /\ canonical # <<>> => canonical[1] # Dot
     /\ \A i \in 1 .. Len(canonical) - 1 : canonical[i] # Dot \/ canonical[i + 1] # Dot
     /\ again = canonical \/ canonical = Append(again, Dot)
     /\ short = ConvertHostNameToShort(canonical)
     /\ short = ConvertHostNameToShort(short)
     /\ Dot \notin ToSet(short)

\* The name is what stood in front of the basic name, the basic name, and
\* arguments in brackets that all close; or it has no such arguments and is longer
\* than one bracket; or it is one bracket, which is taken for arguments.
BasicNameFits ==
  LET basic == DemangledCppNameToBasic(named)
      Balanced(args) ==
        /\ NestingDepth(args, 1) = 0
        /\ \A i \in 2 .. Len(args) : NestingDepth(args, i) > 0
  IN \/ basic = named /\ Len(named) > 1 /\ Last(named) = Close
     \/ basic = <<>> /\ named = <<Close>>
     \/ /\ {ColonChar, Space} \cap ToSet(basic) = {}
        /\ \E i \in 0 .. Len(named) - Len(basic) :
             LET args == SubSeq(named, i + Len(basic) + 1, Len(named))
             IN /\ SubSeq(named, i + 1, i + Len(basic)) = basic
                /\ i > 0 => named[i] \in {ColonChar, Space}
                /\ Balanced(args)
                /\ args # <<>> => Last(args) = Close

\* A path without doubled slashes is its directory and its file again, and the
\* file is a base that is not empty, a dot and the extension, if it has one; a
\* path that ends in a slash has no file, but may have an extension that ends in
\* it (PathNameGetExtension.cpp:47).  The short host name is the same from
\* every form of the name, and a canonical one is canonical but for the dot that
\* it ends in when it was cut behind one (HostName.cpp:143).  The basic form of a
\* C++ name is its last part without the arguments of a template, of which no
\* bracket stays open, or the whole name (DemangleCppName.cpp:82); the name that is
\* one closing bracket has no basic form (DemangleCppName.cpp:100).
NamesFit == PathPartsFit /\ HostFormsFit /\ BasicNameFits
=============================================================================
