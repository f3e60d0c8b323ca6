----------------------------- MODULE WrapperOps -----------------------------
(***************************************************************************)
(* The wrappers other than the tree walks, and the classes they fall in:   *)
(* every wrapper is the same sequence of steps around one native call and  *)
(* differs from the others in what it takes for a failure and where it     *)
(* finds the code to raise.                                                *)
(***************************************************************************)
EXTENDS Integers, Sequences

CONSTANTS
  Codes,     \* errno values and failure codes of fnmatch and glob
  EIO,
  MaxDepth,  \* bound: calls nested through callbacks
  None

ASSUME OpsAssumption ==
  /\ EIO \in Codes
  /\ 0 \notin Codes /\ None \notin Codes \cup {0}
  /\ {"good", "bad", "nomatch"} \cap (Codes \cup {None}) = {}
  /\ MaxDepth \in Nat \ {0}

-----------------------------------------------------------------------------
UnistdOwners == {"access", "chdir", "chown", "faccessat", "fchdir", "fchown",
                 "fchownat"}
UnistdLinks  == {"ftruncate", "getcwd", "lchown", "link", "linkat"}
UnistdReads  == {"readlink", "readlinkat"}
UnistdNames  == {"rmdir", "symlink", "symlinkat", "truncate", "unlink", "unlinkat"}
StatModes    == {"chmod", "fchmod", "fchmodat", "fstat", "fstatat"}
StatNodes    == {"futimens", "lstat", "mkdir", "mkdirat", "stat"}
StatTimes    == {"utimensat", "mknod"}
Statvfs      == {"fstatvfs", "statvfs"}
Temporaries  == {"mkdtemp", "mkstemp"}
Realpath     == {"realpath"}
Streams      == {"closedir", "dirfd"}
Opening      == {"opendir"}
Scandir      == {"scandir"}

(* NULL or -1 is a failure and errno says why.                             *)
Strict == UnistdOwners \cup UnistdLinks \cup UnistdReads \cup UnistdNames
          \cup StatModes \cup StatNodes \cup StatTimes \cup Statvfs
          \cup Temporaries \cup Realpath \cup Streams \cup Opening \cup Scandir

DescriptorLimits == {"fpathconf"}
PathLimits       == {"pathconf"}
StreamOfFd       == {"fdopendir"}
NextEntry        == {"readdir"}
Position         == {"telldir"}
PathParts        == {"basename", "dirname"}

(* NULL or -1 is taken for a failure only if errno is set: it may mean "no *)
(* more entries" or "no limit".                                            *)
Ambiguous == DescriptorLimits \cup PathLimits \cup StreamOfFd \cup NextEntry
             \cup Position \cup PathParts

(* -1 is a failure, and errno is replaced when it says nothing.            *)
Defaulted == {"renameat"}

(* The value itself is the failure code, except the one for "no match".    *)
Fnmatch == {"fnmatch"}
Glob    == {"glob"}
Coded   == Fnmatch \cup Glob

Comparison == {"alphasort"}
Rewind     == {"rewinddir"}
Seek       == {"seekdir"}
FileMask   == {"umask"}
Sync       == {"sync"}
Release    == {"globfree"}

(* These cannot fail: no error argument, and the injector is not asked.    *)
Infallible == Comparison \cup Rewind \cup Seek \cup FileMask \cup Sync
              \cup Release

Ops == Strict \cup Ambiguous \cup Defaulted \cup Coded \cup Infallible

(* Their native functions call back: sel and compar, errfunc.              *)
CallsBack == Scandir \cup Glob

(* What the native function meant by the value it returned: a success, a   *)
(* failure it gives the reason of, or nothing the wrapper is to report.    *)
(* The last is the end of a directory, no limit or no match, and it is     *)
(* also the NULL without errno of fdopendir, basename and dirname: for     *)
(* these a failure that goes unreported, which the wrappers permit.        *)
Meanings == {"ok", "fail", "nothing"}

CanMean(op) == {"ok"}
               \cup (IF op \in Infallible THEN {} ELSE {"fail"})
               \cup (IF op \in Ambiguous \cup Coded THEN {"nothing"} ELSE {})

Innermost(s) == s[Len(s)]
Pop(s) == SubSeq(s, 1, Len(s) - 1)
=============================================================================
