SPECIFICATION Spec
CONSTANTS
    v1 = v1
    v2 = v2
    s1 = s1
    s2 = s2
    old = old
    new = new
    other = other
    VUs = {v1, v2}
    Servers = {s2}
    Methods = {"get", "list", "put"}
    Files = {old, new, other}
    NoFile = NoFile
    NoAddr = NoAddr
    MethodsOf <- MCMethodsOf
    TopLevel <- MCTopLevel
    Messages = {"Item", "List", "Put", "Part", "Any"}
    BuiltIn = {"Any"}
    Nested <- MCNested
    Loadable = {}
    Reflected <- MCReflected
    MaxConns = 2
INVARIANTS
    ReflectionAccepts
