CONSTANTS
    Server = {1, 2}
    Login = {l1}
    None = None
    Load = {1}
    MaxOnline <- MCMaxOnline
    Hash <- MCHash
SPECIFICATION Spec
PROPERTIES NotToTheBusiest RunningServersAreListed DeadServersVanish
