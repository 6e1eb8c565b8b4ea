--------------------------- MODULE MCRoutedConfig ---------------------------
EXTENDS RoutedConfig

Answer(ranges, forwards, dial) == [ranges |-> ranges, forwards |-> forwards, dial |-> dial]

\* The server knows nothing, or two sites and another gateway.
MCConfigs == {Answer({}, {}, "g1"), Answer({"r1", "r2"}, {"d1"}, "g2")}
=============================================================================
