------------------------------ MODULE Versions ------------------------------
(***************************************************************************)
(* Kubernetes versions and the upgrades offered between them:              *)
(* pkg/api/common/versions.go and pkg/api/orchestrators.go.                *)
(*                                                                         *)
(* A version is <<minor, patch>>; the major number is 1 throughout. A      *)
(* pre-release of <<m, 0>> is <<m, -1>>, which is below it as in semver.   *)
(* A table maps each version the build knows to whether new clusters may   *)
(* use it. A list of versions, which the code sorts, is a set.             *)
(***************************************************************************)
EXTENDS Integers

Minor(v) == v[1]
IsPreRelease(v) == v[2] < 0
FirstPreRelease(minor) == <<minor, -1>>

\* semver.GT
Newer(v, w) == v[1] > w[1] \/ (v[1] = w[1] /\ v[2] > w[2])
NewerOrSame(v, w) == v = w \/ Newer(v, w)

\* The empty strings for a version and for a release
NoVersion == <<>>
NoRelease == -1

GetAllSupported(table, isUpdate) == {v \in DOMAIN table : isUpdate \/ table[v]}

GetVersionsGt(versions, version, inclusive, preReleases) ==
    {v \in versions : /\ preReleases \/ ~IsPreRelease(v)
                      /\ Newer(v, version) \/ (inclusive /\ v = version)}

GetVersionsLt(versions, version, inclusive, preReleases) ==
    {v \in versions : /\ preReleases \/ ~IsPreRelease(v)
                      /\ Newer(version, v) \/ (inclusive /\ v = version)}

\* A pre-release as lower bound admits pre-releases.
GetVersionsBetween(versions, min, max, inclusive, preReleases) ==
    LET pre == preReleases \/ IsPreRelease(min)
    IN  GetVersionsGt(versions, min, inclusive, pre)
          \intersect GetVersionsLt(versions, max, inclusive, pre)

GetMinVersion(versions) ==
    CHOOSE v \in versions : \A w \in versions : NewerOrSame(w, v)

GetLatestPatchVersion(minor, versions) ==
    LET patches == {v \in versions : Minor(v) = minor}
    IN  IF patches = {} THEN NoVersion
        ELSE CHOOSE v \in patches : \A w \in patches : NewerOrSame(v, w)

\* Mistake: the limit is the minor after the next, wherever the next supported
\* one is.
AvailableUpgradesNoGap(version, versions) ==
    GetVersionsBetween(versions, version, FirstPreRelease(Minor(version) + 2), FALSE, TRUE)

\* getKubernetesAvailableUpgradeVersions: up to the next minor, or, when the
\* next supported version is further away, up to the minor of that one.
AvailableUpgrades(version, versions) ==
    LET newer == GetVersionsGt(versions, version, FALSE, TRUE)
        next  == Minor(GetMinVersion(newer))
        limit == IF Minor(version) + 1 < next THEN next + 1 ELSE Minor(version) + 2
    IN  IF newer = {} THEN {}
        ELSE GetVersionsBetween(versions, version, FirstPreRelease(limit), FALSE, TRUE)

\* GetOrchestratorVersionProfile: an error for a version the build does not
\* know, otherwise the upgrades to versions new clusters may use.
UpgradesOf(version, table) ==
    IF version \in DOMAIN table
    THEN AvailableUpgrades(version, GetAllSupported(table, FALSE))
    ELSE {}

\* RationalizeReleaseAndVersion: release is a minor or NoRelease.
Rationalize(release, version, versions, default) ==
    CASE release = NoRelease /\ version = NoVersion -> default
      [] release # NoRelease /\ version = NoVersion ->
            GetLatestPatchVersion(release, versions)
      [] OTHER -> IF /\ version \in versions
                     /\ release = NoRelease \/ Minor(version) = release
                  THEN version ELSE NoVersion

GetValidPatchVersion(version, versions, default) ==
    LET same == Rationalize(NoRelease, version, versions, default)
    IN  IF version = NoVersion \/ same # NoVersion THEN same
        ELSE Rationalize(Minor(version), NoVersion, versions, default)

=============================================================================
