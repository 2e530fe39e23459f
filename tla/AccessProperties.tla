--------------------------- MODULE AccessProperties ---------------------------
(***************************************************************************)
(* What departments, selections and roles keep although nothing in their   *)
(* tables is unique and every handler writes what it compared earlier.     *)
(***************************************************************************)
EXTENDS Access

Role == {NoRole, "admin"}

ThreadType ==
  [pc: {"idle", "diff", "add", "del", "loadRole", "update", "addUser"},
   dept: DeptId \cup {NoDept}, sel: SUBSET Server, add: SUBSET Server, del: SUBSET Server,
   user: User \cup {NoUser}, role: Role]

\* Types; among them that the name of the company never becomes a department
\* (collect_department.py:48).
TypeOK ==
  /\ ldap \subseteq Group /\ servers \subseteq Server
  /\ deptRows \in [Group -> Nat] /\ deptRows[Excluded] = 0
  /\ selected \in [DeptId \X Server -> Nat]
  /\ userRows \in [User -> Nat] /\ roles \in [User -> SUBSET Role]
  /\ col \in [Collector -> SUBSET Group]
  /\ thr \in [Thread -> ThreadType]
  /\ double \subseteq Group /\ torn \subseteq DeptId
  /\ batch \in [DeptId -> SUBSET SUBSET Server]
  /\ raced \subseteq (DeptId \X Server) \cup User
  /\ promoted \subseteq User /\ stale \subseteq promoted
  /\ events \in Nat

\* Once the commits for a department that overlapped are done, its users may see
\* every server that all of them selected and none that none of them selected,
\* however their comparisons, INSERTs and DELETEs interleaved; only a commit cut
\* short between the two leaves more (permission.py:48-59).
SelectionsAreKept ==
  \A d \in DeptId :
    Busy(d) = {} /\ d \notin torn /\ batch[d] # {} =>
      \A s \in servers :
        /\ (\A sel \in batch[d] : s \in sel) => s \in Allowed(d)
        /\ s \in Allowed(d) => \E sel \in batch[d] : s \in sel

\* A department, a permission or a user is there twice only if two collectors, two
\* commits or two logins were once about to insert it together.  The second row of
\* 'all-user' needs no race, because one such row is overlooked, but the third does
\* (collect_department.py:38-50, permission.py:51-56, user.py:53-58).
DuplicatesNeedARace ==
  /\ \A g \in Group \ double : deptRows[g] <= 1 + Removed(g)
  /\ \A d \in DeptId, s \in servers : selected[<<d, s>>] > 1 => <<d, s>> \in raced
  /\ \A u \in User : userRows[u] > 1 => u \in raced

\* A user made an administrator stays one, unless a login had just read the old
\* role, which it writes back, or the user has two rows (user.py:53-58).
PromotionSticks ==
  \A u \in promoted \ (stale \cup raced) : roles[u] = {"admin"}

\* A group that stays in LDAP gets its department, whatever runs overlap or end
\* early (collect_department.py:16-50).
GroupGetsDepartment ==
  \A g \in Group \ {Excluded} : g \in ldap ~> g \notin ldap \/ g \in KnownNames
=============================================================================
