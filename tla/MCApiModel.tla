----------------------------- MODULE MCApiModel -----------------------------
EXTENDS ApiModel

\* Two gaps, two patches of 1.27 between them, and on the way from one version
\* to the next every change of flags and gates.
MCKnown == {<<24, 0>>, <<27, 1>>, <<27, 2>>, <<29, 10>>}
MCDefault == <<29, 10>>

\* bound: settings of the user, all for one place, and the options it depends on
MCMaxGiven == 2
MCOptions(p) ==
    CASE p = "calico" -> {{}, {"calico"}}
      [] p \in AzureCloudAddons \union {"cloudControllerManager"} -> {{}, {"ccm"}, {"azureStack"}}
      [] OTHER -> {{}}
MCDefinitions ==
    UNION {{Range(g) \union ({"options"} \X o) :
                g \in [1..MCMaxGiven -> {s \in Settings : s[1] = p}], o \in MCOptions(p)} :
            p \in Places \union Addons}
      \union {{}}

=============================================================================
